---- MODULE Spec2Model ----
(***************************************************************************)
(* A model of peewee_validates.py: Python values and the conversions the   *)
(* fields apply to them, the constraint checks, Field, Validator and       *)
(* ModelValidator.                                                         *)
(*                                                                         *)
(* A Python value is a record [k, i, s]: k its type, i its numeric payload *)
(* and s its characters (a str is the sequence of its one-character        *)
(* strings).  A dict is a function whose DOMAIN is its key set.  A raised  *)
(* exception is an outcome record whose exc names the exception type.      *)
(***************************************************************************)
EXTENDS Integers, Sequences, FiniteSets, TLC

VARIABLES
    field,      \* SpecField: the Field object under test (configuration and value slot)
    call,       \* SpecField: the last Field.validate call on it (input, outcome, checks called)
    added,      \* SpecMessages: the last add_error call (field name, error, exception)
    meta,       \* validator._meta: fields (with names, their order), messages, only, exclude
    hooks,      \* the clean_<field> and clean methods the validator's class defines
    cls,        \* SpecClasses: the validator's class and its bases, most derived first
    heap,       \* SpecLists: the list objects, the list a caller supplies, the fields made of it
    data,       \* validator.data
    errors,     \* validator.errors
    pc,         \* where the validate() call in progress stands ("idle" between calls)
    args,       \* the arguments of the last validate() call; args.data is the caller's dict
    ret,        \* how the last validate() or save() call ended
    instance,   \* ModelValidator.instance: the bound record
    pk_value,   \* ModelValidator.pk_value
    db,         \* the rows of the model's table
    saves,      \* the save() calls made so far
    through,    \* the rows of the through table of the model's many-to-many field
    calls       \* the methods the last validate() or save() call has called, in order

vars ==
    <<field, call, added, meta, hooks, cls, heap, data, errors, pc, args, ret, instance, pk_value, db, saves,
      through, calls>>
fieldVars == <<field, call>>
validatorVars ==
    <<meta, hooks, cls, heap, data, errors, pc, args, ret, instance, pk_value, db, saves, through,
      calls>>

---------------------------------------------------------------------------
(* Python values *)

None == [k |-> "none", i |-> 0, s |-> <<>>]
IntV(n) == [k |-> "int", i |-> n, s |-> <<>>]
FloatV(n) == [k |-> "float", i |-> n, s |-> <<>>]
DecV(n) == [k |-> "decimal", i |-> n, s |-> <<>>]
BoolV(b) == [k |-> "bool", i |-> IF b THEN 1 ELSE 0, s |-> <<>>]
StrV(cs) == [k |-> "str", i |-> 0, s |-> cs]
DateV(n) == [k |-> "date", i |-> n, s |-> <<>>]
TimeV(n) == [k |-> "time", i |-> n, s |-> <<>>]
DateTimeV(n) == [k |-> "datetime", i |-> n, s |-> <<>>]

\* A list is the sequence of its members.  A dict and a record (a peewee.Model instance)
\* are sequences of <<name, value>> pairs.
ListV(vs) == [k |-> "list", i |-> 0, s |-> vs]
DictV(pairs) == [k |-> "dict", i |-> 0, s |-> pairs]
ModelV(pairs) == [k |-> "model", i |-> 0, s |-> pairs]

\* The value paired with name, None when there is no such pair.
pairs_get(pairs, name) ==
    IF \E j \in 1..Len(pairs) : pairs[j][1] = name
    THEN pairs[CHOOSE j \in 1..Len(pairs) : pairs[j][1] = name][2]
    ELSE None

IsNumber(v) == v.k \in {"int", "float", "decimal", "bool"}

\* bool(v): the truth value Python's `if v`, `not v` and `a or b` use.
Truthy(v) ==
    CASE v.k = "none" -> FALSE
      [] IsNumber(v) -> v.i # 0
      [] v.k \in {"str", "list", "dict"} -> Len(v.s) > 0
      [] OTHER -> TRUE

\* a == b: numbers compare by value across int, float, Decimal and bool.
PyEq(a, b) == IF IsNumber(a) /\ IsNumber(b) THEN a.i = b.i ELSE a = b

\* value in options, options a tuple.
PyIn(v, options) == \E j \in 1..Len(options) : PyEq(v, options[j])

Digit == {"0", "1", "2", "3", "4", "5", "6", "7", "8", "9"}

DigitVal(c) ==
    CASE c = "0" -> 0 [] c = "1" -> 1 [] c = "2" -> 2 [] c = "3" -> 3 [] c = "4" -> 4
      [] c = "5" -> 5 [] c = "6" -> 6 [] c = "7" -> 7 [] c = "8" -> 8 [] c = "9" -> 9

DigitChar(n) ==
    CASE n = 0 -> "0" [] n = 1 -> "1" [] n = 2 -> "2" [] n = 3 -> "3" [] n = 4 -> "4"
      [] n = 5 -> "5" [] n = 6 -> "6" [] n = 7 -> "7" [] n = 8 -> "8" [] n = 9 -> "9"

RECURSIVE LStrip(_)
LStrip(cs) == IF cs # <<>> /\ Head(cs) = " " THEN LStrip(Tail(cs)) ELSE cs

RECURSIVE RStrip(_)
RStrip(cs) ==
    IF cs # <<>> /\ cs[Len(cs)] = " " THEN RStrip(SubSeq(cs, 1, Len(cs) - 1)) ELSE cs

\* str.strip()
Strip(cs) == RStrip(LStrip(cs))

RECURSIVE DigitsValue(_)
DigitsValue(cs) ==
    IF cs = <<>> THEN 0
    ELSE 10 * DigitsValue(SubSeq(cs, 1, Len(cs) - 1)) + DigitVal(cs[Len(cs)])

Unsigned(cs) == IF cs # <<>> /\ Head(cs) \in {"-", "+"} THEN Tail(cs) ELSE cs

\* The decimal integer literals int(), float() and Decimal() all accept: optional
\* blanks around an optional sign and at least one digit.
IsIntLiteral(cs) ==
    LET body == Unsigned(Strip(cs))
    IN  body # <<>> /\ \A j \in 1..Len(body) : body[j] \in Digit

IntLiteralValue(cs) ==
    LET t == Strip(cs)
    IN  IF Head(t) = "-" THEN 0 - DigitsValue(Tail(t)) ELSE DigitsValue(Unsigned(t))

RECURSIVE NatChars(_)
NatChars(n) == IF n < 10 THEN <<DigitChar(n)>> ELSE NatChars(n \div 10) \o <<DigitChar(n % 10)>>

IntChars(n) == IF n < 0 THEN <<"-">> \o NatChars(0 - n) ELSE NatChars(n)

RECURSIVE Str(_)

\* repr(v), as characters: a str in quotes.
Repr(v) == IF v.k = "str" THEN <<"'">> \o v.s \o <<"'">> ELSE Str(v)

\* ', '.join(repr(v) for v in vs)
RECURSIVE ReprAll(_)
ReprAll(vs) ==
    IF vs = <<>> THEN <<>>
    ELSE IF Len(vs) = 1 THEN Repr(vs[1])
    ELSE Repr(Head(vs)) \o <<",", " ">> \o ReprAll(Tail(vs))

\* str(v), as characters.
Str(v) ==
    CASE v.k = "none" -> <<"N", "o", "n", "e">>
      [] v.k = "int" -> IntChars(v.i)
      [] v.k = "float" -> IntChars(v.i) \o <<".", "0">>
      [] v.k = "decimal" -> IntChars(v.i)
      [] v.k = "bool" -> IF v.i = 1 THEN <<"T", "r", "u", "e">> ELSE <<"F", "a", "l", "s", "e">>
      [] v.k = "str" -> v.s
      [] v.k = "list" -> <<"[">> \o ReprAll(v.s) \o <<"]">>
      [] OTHER -> <<"<", v.k, ">">>

\* The characters as one string.
RECURSIVE Text(_)
Text(cs) == IF cs = <<>> THEN "" ELSE Head(cs) \o Text(Tail(cs))

---------------------------------------------------------------------------
(* Outcomes: a normal return of value v, ValidationError(key, **kwargs), or an *)
(* exception of another type.  kwargs is a tuple of [n, v] pairs.              *)

Return(v) == [exc |-> "none", key |-> "", kwargs |-> <<>>, v |-> v]
ValidationError(key, kwargs) == [exc |-> "ValidationError", key |-> key, kwargs |-> kwargs, v |-> None]
Raised(type) == [exc |-> type, key |-> "", kwargs |-> <<>>, v |-> None]
Kw(n, v) == [n |-> n, v |-> v]

---------------------------------------------------------------------------
(* Conversions *)

\* int(v): TypeError or ValueError when v is no number and no integer literal.
int(v) ==
    CASE v.k \in {"int", "bool", "float", "decimal"} -> Return(IntV(v.i))
      [] v.k = "str" -> IF IsIntLiteral(v.s) THEN Return(IntV(IntLiteralValue(v.s)))
                        ELSE Raised("ValueError")
      [] OTHER -> Raised("TypeError")

\* float(v), for the numbers and the integer literals (floats of the model are whole).
float(v) ==
    CASE v.k \in {"int", "bool", "float", "decimal"} -> Return(FloatV(v.i))
      [] v.k = "str" -> IF IsIntLiteral(v.s) THEN Return(FloatV(IntLiteralValue(v.s)))
                        ELSE Raised("ValueError")
      [] OTHER -> Raised("TypeError")

\* Decimal(v): a malformed literal raises InvalidOperation.
Decimal(v) ==
    CASE v.k \in {"int", "bool", "float", "decimal"} -> Return(DecV(v.i))
      [] v.k = "str" -> IF IsIntLiteral(v.s) THEN Return(DecV(IntLiteralValue(v.s)))
                        ELSE Raised("InvalidOperation")
      [] OTHER -> Raised("TypeError")

\* The strings dateutil is given in the model: one it parses (to midnight of day 1 of the
\* current year) and the ones it rejects.
Jan1 == <<"j", "a", "n", " ", "1">>

\* dateutil.parser.parse(v): a datetime, ValueError for a string that is no date,
\* TypeError for a value that is no string.
dateutil_parse(v) ==
    CASE v.k = "str" -> IF v.s = Jan1 THEN Return(DateTimeV(1)) ELSE Raised("ValueError")
      [] OTHER -> Raised("TypeError")

\* datetime.date(), datetime.time()
date_of(dt) == DateV(dt.i)
time_of(dt) == TimeV(0)

\* isinstance(v, datetime.date): datetime is a subclass of date.
IsDate(v) == v.k \in {"date", "datetime"}

\* `except (types): raise ValidationError(key)` around a conversion.
Except(out, types, key) == IF out.exc \in types THEN ValidationError(key, <<>>) ELSE out

Field_coerce(value) == Return(value)

StringField_coerce(value) == Return(StrV(Str(value)))

FloatField_coerce(value) ==
    Except(IF Truthy(value) THEN float(value) ELSE Return(None),
           {"TypeError", "ValueError"}, "coerce_float")

\* IntegerField.coerce with `except TypeError` alone: a malformed literal's ValueError escapes.
IntegerField_coerce_TypeErrorOnly(value) ==
    Except(IF value # None THEN int(value) ELSE Return(None), {"TypeError"}, "coerce_int")

IntegerField_coerce(value) ==
    Except(IF value # None THEN int(value) ELSE Return(None),
           {"TypeError", "ValueError"}, "coerce_int")

DecimalField_coerce(value) ==
    Except(IF Truthy(value) THEN Decimal(value) ELSE Return(None),
           {"TypeError", "ValueError", "InvalidOperation"}, "coerce_decimal")

DateField_coerce(value) ==
    IF ~Truthy(value) \/ IsDate(value) THEN Return(value)
    ELSE LET p == dateutil_parse(value)
         IN  Except(IF p.exc = "none" THEN Return(date_of(p.v)) ELSE p,
                    {"TypeError", "ValueError"}, "coerce_date")

TimeField_coerce(value) ==
    IF ~Truthy(value) \/ value.k = "time" THEN Return(value)
    ELSE LET p == dateutil_parse(value)
         IN  Except(IF p.exc = "none" THEN Return(time_of(p.v)) ELSE p,
                    {"TypeError", "ValueError"}, "coerce_time")

DateTimeField_coerce(value) ==
    IF ~Truthy(value) \/ value.k = "datetime" THEN Return(value)
    ELSE Except(dateutil_parse(value), {"TypeError", "ValueError"}, "coerce_datetime")

false_values == {<<"0">>, <<"{", "}">>, <<"[", "]">>, <<"n", "o", "n", "e">>,
                 <<"f", "a", "l", "s", "e">>}

\* str.lower(), on the characters of the model's strings.
LowerChar(c) == CASE c = "N" -> "n" [] c = "T" -> "t" [] c = "F" -> "f" [] OTHER -> c
Lower(cs) == [j \in 1..Len(cs) |-> LowerChar(cs[j])]

BooleanField_coerce(value) == Return(BoolV(Lower(Str(value)) \notin false_values))

\* field.coerce(value), dispatched on the field's class.
coerce(kind, value) ==
    CASE kind = "StringField" -> StringField_coerce(value)
      [] kind = "FloatField" -> FloatField_coerce(value)
      [] kind = "IntegerField" -> IntegerField_coerce(value)
      [] kind = "DecimalField" -> DecimalField_coerce(value)
      [] kind = "DateField" -> DateField_coerce(value)
      [] kind = "TimeField" -> TimeField_coerce(value)
      [] kind = "DateTimeField" -> DateTimeField_coerce(value)
      [] kind = "BooleanField" -> BooleanField_coerce(value)
      [] OTHER -> Field_coerce(value)

---------------------------------------------------------------------------
(* Constraint checks.  A check is the closure a validate_* factory returns, *)
(* a record of the factory's name and the arguments the closure captured.  *)

Check(op, low, high, equal, values, other) ==
    [op |-> op, low |-> low, high |-> high, equal |-> equal, values |-> values, other |-> other,
     pk |-> None]

validate_required == Check("required", None, None, None, <<>>, "")
validate_not_empty == Check("not_empty", None, None, None, <<>>, "")
validate_length(low, high, equal) == Check("length", low, high, equal, <<>>, "")
validate_one_of(values) == Check("one_of", None, None, None, values, "")
validate_none_of(values) == Check("none_of", None, None, None, values, "")
validate_range(low, high) == Check("range", low, high, None, <<>>, "")
validate_equal(value) == Check("equal", None, None, value, <<>>, "")
validate_matches(other) == Check("matches", None, None, None, <<>>, other)
validate_regexp(pattern) == Check("regexp", None, None, None, <<>>, pattern)
\* method accepts exactly the members of `accepts`; name is method.__name__.
validate_function(name, accepts) == Check("function", None, None, None, accepts, name)
validate_email == Check("email", None, None, None, <<>>, "")
\* lookup_field is the column's name, the queryset the model's table, pk_field its id.
validate_model_unique(lookup_field, pk) ==
    [Check("unique", None, None, None, <<>>, lookup_field) EXCEPT !.pk = pk]
\* A closure of the caller's own in a validators list: it raises ValidationError(key) on
\* the members of `rejects` and returns on every other value.
custom_validator(key, rejects) == Check("custom", None, None, None, rejects, key)

\* len(v): TypeError for a value that has no length.
len(v) == IF v.k = "str" THEN Return(IntV(Len(v.s))) ELSE Raised("TypeError")

\* a < b and a > b are defined between numbers; any other pair the model compares
\* (a str or a date against a numeric bound) raises TypeError.
Comparable(a, b) == IsNumber(a) /\ IsNumber(b)

\* sep.join(parts), parts a tuple of character sequences.
RECURSIVE join(_, _)
join(sep, parts) ==
    IF parts = <<>> THEN <<>>
    ELSE IF Len(parts) = 1 THEN parts[1]
    ELSE parts[1] \o sep \o join(sep, Tail(parts))

CommaSpace == <<",", " ">>

required_validator(c, value, input) ==
    IF value = None THEN ValidationError("required", <<>>) ELSE Return(None)

empty_validator(c, value, input) ==
    IF value.k = "str" /\ ~Truthy(StrV(Strip(value.s)))
    THEN ValidationError("empty", <<>>) ELSE Return(None)

length_validator(c, value, input) ==
    IF value = None THEN Return(None)
    ELSE IF len(value).exc # "none" THEN len(value)
    ELSE LET n == len(value).v.i
         IN  IF c.equal # None /\ n # c.equal.i
             THEN ValidationError("length_equal", <<Kw("equal", c.equal)>>)
             ELSE IF c.low # None /\ n < c.low.i
             THEN ValidationError(IF c.high = None THEN "length_low" ELSE "length_between",
                                  <<Kw("low", c.low), Kw("high", c.high)>>)
             ELSE IF c.high # None /\ n > c.high.i
             THEN ValidationError(IF c.low = None THEN "length_high" ELSE "length_between",
                                  <<Kw("low", c.low), Kw("high", c.high)>>)
             ELSE Return(None)

one_of_validator(c, value, input) ==
    IF value = None THEN Return(None)
    ELSE IF ~PyIn(value, c.values)
    THEN ValidationError("one_of",
            <<Kw("choices", StrV(join(CommaSpace, [j \in 1..Len(c.values) |-> Str(c.values[j])])))>>)
    ELSE Return(None)

\* No None guard; str.join(', ', options) raises TypeError unless every option is a str.
none_of_validator(c, value, input) ==
    IF PyIn(value, c.values)
    THEN IF \A j \in 1..Len(c.values) : c.values[j].k = "str"
         THEN ValidationError("none_of",
                <<Kw("choices", StrV(join(CommaSpace, [j \in 1..Len(c.values) |-> c.values[j].s])))>>)
         ELSE Raised("TypeError")
    ELSE Return(None)

range_validator(c, value, input) ==
    IF value = None THEN Return(None)
    ELSE IF c.low # None /\ ~Comparable(value, c.low) THEN Raised("TypeError")
    ELSE IF c.low # None /\ value.i < c.low.i
    THEN ValidationError(IF c.high = None THEN "range_low" ELSE "range_between",
                         <<Kw("low", c.low), Kw("high", c.high)>>)
    ELSE IF c.high # None /\ ~Comparable(value, c.high) THEN Raised("TypeError")
    ELSE IF c.high # None /\ value.i > c.high.i
    THEN ValidationError(IF c.high = None THEN "range_high" ELSE "range_between",
                         <<Kw("low", c.low), Kw("high", c.high)>>)
    ELSE Return(None)

equal_validator(c, value, input) ==
    IF value = None THEN Return(None)
    ELSE IF ~PyEq(value, c.equal) THEN ValidationError("equal", <<Kw("other", c.equal)>>)
    ELSE Return(None)

\* dict.get(key): None for a missing key.
get(d, key) == IF key \in DOMAIN d THEN d[key] ELSE None

matches_validator(c, value, input) ==
    IF value = None THEN Return(None)
    ELSE IF ~PyEq(value, get(input, c.other))
    THEN ValidationError("matches", <<Kw("other", StrV(<<c.other>>))>>)
    ELSE Return(None)

\* The pattern the model's regexp checks are built with, and regex.match for it.
DigitsPattern == "^[0-9]+$"
regex_match(pattern, cs) ==
    IF pattern = DigitsPattern THEN cs # <<>> /\ \A j \in 1..Len(cs) : cs[j] \in Digit
    ELSE FALSE

regexp_validator(c, value, input) ==
    IF value = None THEN Return(None)
    ELSE IF ~regex_match(c.other, Str(value))
    THEN ValidationError("regexp", <<Kw("pattern", StrV(<<c.other>>))>>)
    ELSE Return(None)

function_validator(c, value, input) ==
    IF value = None THEN Return(None)
    ELSE IF ~PyIn(value, c.values)
    THEN ValidationError("function", <<Kw("function", StrV(<<c.other>>))>>)
    ELSE Return(None)

\* The model's strings hold no '.', so of the strings with an '@' only those whose
\* domain part is the whitelisted one pass; user_regex accepts a run of word characters.
Localhost == <<"l", "o", "c", "a", "l", "h", "o", "s", "t">>
WordChar == Digit \cup {"a", "c", "h", "j", "l", "n", "o", "s", "t", "x", "-"}
HasAt(cs) == \E j \in 1..Len(cs) : cs[j] = "@"
LastAt(cs) == CHOOSE j \in 1..Len(cs) : cs[j] = "@" /\ \A m \in (j + 1)..Len(cs) : cs[m] # "@"

email_validator(c, value, input) ==
    IF value = None THEN Return(None)
    ELSE LET cs == Str(value)
         IN  IF ~HasAt(cs) THEN ValidationError("email", <<>>)
             ELSE LET user_part == SubSeq(cs, 1, LastAt(cs) - 1)
                      domain_part == SubSeq(cs, LastAt(cs) + 1, Len(cs))
                  IN  IF ~(user_part # <<>> /\ \A j \in 1..Len(user_part) : user_part[j] \in WordChar)
                      THEN ValidationError("email", <<>>)
                      ELSE IF domain_part = Localhost THEN Return(None)
                      ELSE ValidationError("email", <<>>)

\* No None guard: the query is made for whatever the value is.  The current record is
\* left out only when the captured pk_value is true.
unique_validator(c, value, input) ==
    LET query == {r \in db : r[c.other] = value}
        others == IF Truthy(c.pk) THEN {r \in query : r["id"] # c.pk} ELSE query
    IN  IF others # {} THEN ValidationError("unique", <<>>) ELSE Return(None)

custom_check(c, value, input) ==
    IF PyIn(value, c.values) THEN ValidationError(c.other, <<>>) ELSE Return(None)

\* method(self, input), for a method of a validators list.
RunCheck(c, value, input) ==
    CASE c.op = "required" -> required_validator(c, value, input)
      [] c.op = "not_empty" -> empty_validator(c, value, input)
      [] c.op = "length" -> length_validator(c, value, input)
      [] c.op = "one_of" -> one_of_validator(c, value, input)
      [] c.op = "none_of" -> none_of_validator(c, value, input)
      [] c.op = "range" -> range_validator(c, value, input)
      [] c.op = "equal" -> equal_validator(c, value, input)
      [] c.op = "matches" -> matches_validator(c, value, input)
      [] c.op = "regexp" -> regexp_validator(c, value, input)
      [] c.op = "function" -> function_validator(c, value, input)
      [] c.op = "email" -> email_validator(c, value, input)
      [] c.op = "unique" -> unique_validator(c, value, input)
      [] c.op = "custom" -> custom_check(c, value, input)

---------------------------------------------------------------------------
(* Field.  A default is [fn, v]: the literal v, or with fn a callable returning v. *)

NoDefault == [fn |-> FALSE, v |-> None]
Default(v) == [fn |-> FALSE, v |-> v]
CallableDefault(v) == [fn |-> TRUE, v |-> v]

\* Field.__init__: `required` is kept as declared (the class only reads the argument).
Field__init__(kind, required, default, validators) ==
    [kind |-> kind, required |-> required, default |-> default, value |-> None,
     validators |-> IF required THEN Append(validators, validate_required) ELSE validators]

Field(required, default, validators) == Field__init__("Field", required, default, validators)

StringField(required, max_length, min_length, default, validators) ==
    Field__init__("StringField", required, default,
        IF Truthy(max_length) \/ Truthy(min_length)
        THEN Append(validators, validate_length(min_length, max_length, None))
        ELSE validators)

\* The __init__ FloatField, IntegerField, DecimalField, DateField, TimeField and
\* DateTimeField each repeat.
RangeField__init__(kind, required, low, high, default, validators) ==
    Field__init__(kind, required, default,
        IF Truthy(low) \/ Truthy(high) THEN Append(validators, validate_range(low, high))
        ELSE validators)

FloatField(required, low, high, default, validators) ==
    RangeField__init__("FloatField", required, low, high, default, validators)
IntegerField(required, low, high, default, validators) ==
    RangeField__init__("IntegerField", required, low, high, default, validators)
DecimalField(required, low, high, default, validators) ==
    RangeField__init__("DecimalField", required, low, high, default, validators)
DateField(required, low, high, default, validators) ==
    RangeField__init__("DateField", required, low, high, default, validators)
TimeField(required, low, high, default, validators) ==
    RangeField__init__("TimeField", required, low, high, default, validators)
DateTimeField(required, low, high, default, validators) ==
    RangeField__init__("DateTimeField", required, low, high, default, validators)
BooleanField(required, default, validators) ==
    Field__init__("BooleanField", required, default, validators)

get_value(f, name, input) ==
    IF name \in DOMAIN input THEN input[name]
    ELSE IF f.default.fn \/ Truthy(f.default.v) THEN f.default.v
    ELSE None

\* The validators loop with the exception of a check held back until every check has run.
RECURSIVE RunValidators_KeepGoing(_, _, _, _, _)
RunValidators_KeepGoing(validators, j, value, input, called) ==
    IF j > Len(validators) THEN [out |-> Return(None), called |-> called]
    ELSE LET o == RunCheck(validators[j], value, input)
             rest == RunValidators_KeepGoing(validators, j + 1, value, input, Append(called, j))
         IN  [out |-> IF o.exc # "none" THEN o ELSE rest.out, called |-> rest.called]

\* `for method in self.validators: method(self, input)`, from the j-th on: the outcome
\* and the indices of the methods called.
RECURSIVE RunValidators(_, _, _, _, _)
RunValidators(validators, j, value, input, called) ==
    IF j > Len(validators) THEN [out |-> Return(None), called |-> called]
    ELSE LET o == RunCheck(validators[j], value, input)
         IN  IF o.exc # "none" THEN [out |-> o, called |-> Append(called, j)]
             ELSE RunValidators(validators, j + 1, value, input, Append(called, j))

\* Field.validate(name, input): the value slot afterwards, the outcome, what get_value
\* returned, whether coerce was called and the checks called.
Field_validate(f, name, input) ==
    LET v0 == get_value(f, name, input)
        c == IF v0 # None THEN coerce(f.kind, v0) ELSE Return(v0)
    IN  IF c.exc # "none"
        THEN [value |-> v0, out |-> c, got |-> v0, coerced |-> TRUE, called |-> <<>>]
        ELSE LET r == RunValidators(f.validators, 1, c.v, input, <<>>)
             IN  [value |-> c.v, out |-> r.out, got |-> v0, coerced |-> v0 # None,
                  called |-> r.called]

---------------------------------------------------------------------------
(* Relation fields.  query is the set of the rows of the related table (a row is a      *)
(* function from the column names), lookup_field the name of the column looked up, an   *)
(* integer key.                                                                         *)

ModelChoiceField(query, lookup_field, required, default, validators) ==
    [kind |-> "ModelChoiceField", required |-> required, default |-> default, value |-> None,
     validators |-> IF required THEN Append(validators, validate_required) ELSE validators,
     query |-> query, lookup_field |-> lookup_field]

ManyModelChoiceField(query, lookup_field, required, default, validators) ==
    [kind |-> "ManyModelChoiceField", required |-> required, default |-> default, value |-> None,
     validators |-> IF required THEN Append(validators, validate_required) ELSE validators,
     query |-> query, lookup_field |-> lookup_field]

coerce_single_instance(lookup_field, value) ==
    IF value.k \in {"dict", "model"} THEN pairs_get(value.s, lookup_field) ELSE value

isiterable_notstring(value) == value.k \in {"list", "dict"}

ModelChoiceField_coerce(lookup_field, value) ==
    Return(coerce_single_instance(lookup_field, value))

ManyModelChoiceField_coerce(lookup_field, value) ==
    LET v1 == IF value.k = "dict" THEN ListV(<<value>>) ELSE value
        v2 == IF ~isiterable_notstring(v1) THEN ListV(<<v1>>) ELSE v1
    IN  Return(ListV([j \in 1..Len(v2.s) |-> coerce_single_instance(lookup_field, v2.s[j])]))

\* self.coerce(value) of Field.validate, for every class of field.
coerce_of(f, value) ==
    CASE f.kind = "ModelChoiceField" -> ModelChoiceField_coerce(f.lookup_field, value)
      [] f.kind = "ManyModelChoiceField" -> ManyModelChoiceField_coerce(f.lookup_field, value)
      [] OTHER -> coerce(f.kind, value)

\* Field.validate as the relation fields inherit it (super().validate(name, data)).
super_validate(f, name, input) ==
    LET v0 == get_value(f, name, input)
        c == IF v0 # None THEN coerce_of(f, v0) ELSE Return(v0)
        r == RunValidators(f.validators, 1, c.v, input, <<>>)
    IN  [value |-> c.v, out |-> r.out, got |-> v0, coerced |-> v0 # None, called |-> r.called]

\* The record of a row: its columns as attributes, in the order of names.
record(names, row) == ModelV([j \in 1..Len(names) |-> <<names[j], row[names[j]]>>])

\* The names of the columns of the related tables of the model.
RelatedColumns == <<"id", "name">>

\* query.get(lookup_field == key): the key is converted to the column's type (int(key),
\* whose exception comes out), then the record of a row that matches is returned, or
\* DoesNotExist raised.
query_get(query, lookup_field, key) ==
    LET n == int(key)
        found == {r \in query : r[lookup_field] = n.v}
    IN  IF n.exc # "none" THEN Raised(n.exc)
        ELSE IF found = {} THEN Raised("DoesNotExist")
        ELSE Return(record(RelatedColumns, CHOOSE r \in found : TRUE))

\* The exceptions of a lookup that the relation fields turn into `related`.
LookupErrors == {"AttributeError", "ValueError", "DoesNotExist"}

\* ValidationError('related', field=self.lookup_field.name, values=self.value)
related(f, value) ==
    ValidationError("related", <<Kw("field", StrV(<<f.lookup_field>>)), Kw("values", value)>>)

\* ModelChoiceField.validate after super().validate(name, data) ended as r: as r, with
\* the keys looked up and the exception a lookup raised.
ModelChoiceField_try(f, r) ==
    LET q == query_get(f.query, f.lookup_field, r.value)
    IN  IF r.out.exc # "none" \/ r.value = None
        THEN [value |-> r.value, out |-> r.out, got |-> r.got, coerced |-> r.coerced,
              called |-> r.called, lookups |-> <<>>, inner |-> "none"]
        ELSE [value |-> IF q.exc = "none" THEN q.v ELSE r.value,
              out |-> IF q.exc = "none" THEN r.out
                      ELSE IF q.exc \in LookupErrors THEN related(f, r.value)
                      ELSE q,
              got |-> r.got, coerced |-> r.coerced, called |-> r.called,
              lookups |-> <<r.value>>, inner |-> q.exc]

\* ModelChoiceField.validate(name, input)
ModelChoiceField_validate(f, name, input) ==
    ModelChoiceField_try(f, super_validate(f, name, input))

\* The comprehension without its `if v`: every key is looked up.
RECURSIVE get_all_KeepBlanks(_, _, _, _, _)
get_all_KeepBlanks(f, keys, j, found, lookups) ==
    IF j > Len(keys) THEN [out |-> Return(ListV(found)), lookups |-> lookups]
    ELSE LET q == query_get(f.query, f.lookup_field, keys[j])
         IN  IF q.exc # "none" THEN [out |-> q, lookups |-> Append(lookups, keys[j])]
             ELSE get_all_KeepBlanks(f, keys, j + 1, Append(found, q.v), Append(lookups, keys[j]))

\* `[self.query.select().where(self.lookup_field == v).get() for v in self.value if v]`,
\* from the j-th key on: the records found, the keys looked up and the exception that
\* ended it.
RECURSIVE get_all(_, _, _, _, _)
get_all(f, keys, j, found, lookups) ==
    IF j > Len(keys) THEN [out |-> Return(ListV(found)), lookups |-> lookups]
    ELSE IF ~Truthy(keys[j]) THEN get_all(f, keys, j + 1, found, lookups)
    ELSE LET q == query_get(f.query, f.lookup_field, keys[j])
         IN  IF q.exc # "none" THEN [out |-> q, lookups |-> Append(lookups, keys[j])]
             ELSE get_all(f, keys, j + 1, Append(found, q.v), Append(lookups, keys[j]))

\* ManyModelChoiceField.validate with `except Exception:` around the lookups.
ManyModelChoiceField_try_CatchAll(f, r) ==
    LET g == get_all(f, r.value.s, 1, <<>>, <<>>)
    IN  IF r.out.exc # "none" \/ r.value = None
        THEN [value |-> r.value, out |-> r.out, got |-> r.got, coerced |-> r.coerced,
              called |-> r.called, lookups |-> <<>>, inner |-> "none"]
        ELSE [value |-> IF g.out.exc = "none" THEN g.out.v ELSE r.value,
              out |-> IF g.out.exc = "none" THEN r.out ELSE related(f, r.value),
              got |-> r.got, coerced |-> r.coerced, called |-> r.called,
              lookups |-> g.lookups, inner |-> g.out.exc]

\* ManyModelChoiceField.validate after super().validate(name, data) ended as r.
ManyModelChoiceField_try(f, r) ==
    LET g == get_all(f, r.value.s, 1, <<>>, <<>>)
    IN  IF r.out.exc # "none" \/ r.value = None
        THEN [value |-> r.value, out |-> r.out, got |-> r.got, coerced |-> r.coerced,
              called |-> r.called, lookups |-> <<>>, inner |-> "none"]
        ELSE [value |-> IF g.out.exc = "none" THEN g.out.v ELSE r.value,
              out |-> IF g.out.exc = "none" THEN r.out
                      ELSE IF g.out.exc \in LookupErrors THEN related(f, r.value)
                      ELSE g.out,
              got |-> r.got, coerced |-> r.coerced, called |-> r.called,
              lookups |-> g.lookups, inner |-> g.out.exc]

\* ManyModelChoiceField.validate(name, input)
ManyModelChoiceField_validate(f, name, input) ==
    ManyModelChoiceField_try(f, super_validate(f, name, input))

\* field.validate(name, input), dispatched on the field's class.
field_validate(f, name, input) ==
    CASE f.kind = "ModelChoiceField" -> ModelChoiceField_validate(f, name, input)
      [] f.kind = "ManyModelChoiceField" -> ManyModelChoiceField_validate(f, name, input)
      [] OTHER -> Field_validate(f, name, input) @@ [lookups |-> <<>>, inner |-> "none"]

---------------------------------------------------------------------------
(* Messages.  A message template is a tuple of tokens, literal text or a {placeholder}; *)
(* the empty tuple is the empty string.  A looked-up message is [none, t]: None, or the *)
(* template t.                                                                          *)

Lit(text) == [lit |-> text, ph |-> ""]
Ph(name) == [lit |-> "", ph |-> name]

DEFAULT_MESSAGES ==
    [required |-> <<Lit("This field is required.")>>,
     empty |-> <<Lit("This field must not be blank.")>>,
     one_of |-> <<Lit("Must be one of the choices: "), Ph("choices"), Lit(".")>>,
     none_of |-> <<Lit("Must not be one of the choices: "), Ph("choices"), Lit(".")>>,
     equal |-> <<Lit("Must be equal to "), Ph("other"), Lit(".")>>,
     regexp |-> <<Lit("Must match the pattern "), Ph("pattern"), Lit(".")>>,
     matches |-> <<Lit("Must match the field "), Ph("other"), Lit(".")>>,
     email |-> <<Lit("Must be a valid email address.")>>,
     function |-> <<Lit("Failed validation for "), Ph("function"), Lit(".")>>,
     length_high |-> <<Lit("Must be at most "), Ph("high"), Lit(" characters.")>>,
     length_low |-> <<Lit("Must be at least "), Ph("low"), Lit(" characters.")>>,
     length_between |-> <<Lit("Must be between "), Ph("low"), Lit(" and "), Ph("high"), Lit(" characters.")>>,
     length_equal |-> <<Lit("Must be exactly "), Ph("equal"), Lit(" characters.")>>,
     range_high |-> <<Lit("Must be at most "), Ph("high"), Lit(".")>>,
     range_low |-> <<Lit("Must be at least "), Ph("low"), Lit(".")>>,
     range_between |-> <<Lit("Must be between "), Ph("low"), Lit(" and "), Ph("high"), Lit(".")>>,
     coerce_decimal |-> <<Lit("Must be a valid decimal.")>>,
     coerce_date |-> <<Lit("Must be a valid date.")>>,
     coerce_time |-> <<Lit("Must be a valid time.")>>,
     coerce_datetime |-> <<Lit("Must be a valid datetime.")>>,
     coerce_float |-> <<Lit("Must be a valid float.")>>,
     coerce_int |-> <<Lit("Must be a valid integer.")>>,
     related |-> <<Lit("Unable to find object with "), Ph("field"), Lit(" = "), Ph("values"), Lit(".")>>,
     list |-> <<Lit("Must be a list of values")>>,
     unique |-> <<Lit("Must be a unique value.")>>,
     index |-> <<Lit("Fields must be unique together.")>>]

ValidationFailed == <<Lit("Validation failed.")>>

NoMessage == [none |-> TRUE, t |-> <<>>]
Message(t) == [none |-> FALSE, t |-> t]

\* messages.get(key)
messages_get(messages, key) == IF key \in DOMAIN messages THEN Message(messages[key]) ELSE NoMessage

\* `not message`: None and the empty string are both false.
NotMessage(m) == m.none \/ m.t = <<>>

HasKw(kwargs, name) == \E j \in 1..Len(kwargs) : kwargs[j].n = name
KwValue(kwargs, name) == kwargs[CHOOSE j \in 1..Len(kwargs) : kwargs[j].n = name].v

\* template.format(**kwargs): the text, or KeyError for a placeholder kwargs lacks.
RECURSIVE format(_, _)
format(t, kwargs) ==
    IF t = <<>> THEN [exc |-> "none", text |-> ""]
    ELSE LET rest == format(Tail(t), kwargs)
             tok == Head(t)
         IN  IF tok.ph = "" THEN [exc |-> rest.exc, text |-> tok.lit \o rest.text]
             ELSE IF ~HasKw(kwargs, tok.ph) THEN [exc |-> "KeyError", text |-> ""]
             ELSE [exc |-> rest.exc, text |-> Text(Str(KwValue(kwargs, tok.ph))) \o rest.text]

\* '{}.{}'.format(name, key)
DottedKey(name, key) == name \o "." \o key

\* Validator.add_error with the lookups in the other order: the bare kind before the
\* field's own key.
add_error_KindFirst(messages, errs, name, error) ==
    LET m1 == messages_get(messages, error.key)
        m2 == IF NotMessage(m1) THEN messages_get(messages, DottedKey(name, error.key)) ELSE m1
        m3 == IF NotMessage(m2)
              THEN IF error.key \in DOMAIN DEFAULT_MESSAGES THEN DEFAULT_MESSAGES[error.key]
                   ELSE ValidationFailed
              ELSE m2.t
        f == format(m3, error.kwargs)
    IN  [exc |-> f.exc, errors |-> IF f.exc = "none" THEN (name :> f.text) @@ errs ELSE errs]

\* Validator.add_error(name, error): the errors dict afterwards, or the exception of format.
add_error(messages, errs, name, error) ==
    LET m1 == messages_get(messages, DottedKey(name, error.key))
        m2 == IF NotMessage(m1) THEN messages_get(messages, error.key) ELSE m1
        m3 == IF NotMessage(m2)
              THEN IF error.key \in DOMAIN DEFAULT_MESSAGES THEN DEFAULT_MESSAGES[error.key]
                   ELSE ValidationFailed
              ELSE m2.t
        f == format(m3, error.kwargs)
    IN  [exc |-> f.exc, errors |-> IF f.exc = "none" THEN (name :> f.text) @@ errs ELSE errs]

---------------------------------------------------------------------------
(* Validator.  validator._meta is [fields, names, messages, only, exclude, model]:  *)
(* fields maps a name to its Field, names lists the names in the order of            *)
(* _meta.fields.items(), model is the peewee model of a ModelValidator.  The state   *)
(* of a validate() call in progress is [fields, data, errors, exc, calls]; exc names  *)
(* an exception other than ValidationError on its way out of the call, calls lists   *)
(* the calls it has made: [op, name, v, exc, inner] is a call of op for the field    *)
(* name with the value v that raised exc, having caught inner inside.                *)

Called(op, name, v, exc, inner) == [op |-> op, name |-> name, v |-> v, exc |-> exc, inner |-> inner]

\* The calls of log that are calls of op.
CallsOf(log, op) == {j \in 1..Len(log) : log[j].op = op}

\* x in seq, for a list or tuple of names.
Has(seq, x) == \E j \in 1..Len(seq) : seq[j] = x

\* A class is the tuple of the class bodies it is made of, its own first and its
\* bases after it in method resolution order; a body maps an attribute name to what it
\* assigns, a Field or an object that is none.
NotAField == [kind |-> "object"]
isinstance_Field(obj) == obj # NotAField

\* The attribute names of the classes, in the order dir() lists names (sorted).
AttrNames == <<"courses", "field1", "name">>

\* dir(self), without the names every validator has.
dir(mro) == SelectSeq(AttrNames, LAMBDA name : \E j \in 1..Len(mro) : name \in DOMAIN mro[j])

\* Attribute lookup with the bases searched before the class.
getattr_BaseFirst(mro, name) ==
    mro[CHOOSE j \in 1..Len(mro) :
            name \in DOMAIN mro[j] /\ \A i \in (j + 1)..Len(mro) : name \notin DOMAIN mro[i]][name]

\* getattr(self, name) for a class attribute: that of the first class, in method
\* resolution order, whose body assigns the name.
getattr_class(mro, name) ==
    mro[CHOOSE j \in 1..Len(mro) :
            name \in DOMAIN mro[j] /\ \A i \in 1..(j - 1) : name \notin DOMAIN mro[i]][name]

\* The loop of Validator.initialize_fields over the names left: st is [fields, names],
\* self._meta.fields and the order of its keys.
RECURSIVE register(_, _, _)
register(mro, left, st) ==
    IF left = <<>> THEN st
    ELSE LET name == Head(left)
             obj == getattr_class(mro, name)
         IN  register(mro, Tail(left),
                IF isinstance_Field(obj)
                THEN [fields |-> (name :> obj) @@ st.fields,
                      names |-> IF Has(st.names, name) THEN st.names ELSE Append(st.names, name)]
                ELSE st)

\* Validator.initialize_fields(), self._meta.fields being fields (keys in the order
\* names) before it.
Validator_initialize_fields(mro, fields, names) ==
    register(mro, dir(mro), [fields |-> fields, names |-> names])

\* `name in exclude or (only and name not in only)`
Skipped(name, only, exclude) == Has(exclude, name) \/ (only # <<>> /\ ~Has(only, name))

\* The body of the per-field loop for name, field.validate(name, data) having ended as
\* r: the value goes to data, a ValidationError to add_error, any other exception out
\* of validate().
validated(m, st, name, r) ==
    LET a == add_error(m.messages, st.errors, name, r.out)
        st1 == [st EXCEPT !.fields[name].value = r.value,
                          !.calls = Append(@, Called("validate", name, r.got, r.out.exc, r.inner))]
    IN  IF r.out.exc = "none" THEN [st1 EXCEPT !.data = (name :> r.value) @@ st.data]
        ELSE IF r.out.exc = "ValidationError" THEN [st1 EXCEPT !.errors = a.errors, !.exc = a.exc]
        ELSE [st1 EXCEPT !.exc = r.out.exc]

\* The per-field loop with `break` in the place of `continue` after add_error.
RECURSIVE validate_fields_Break(_, _, _, _, _, _)
validate_fields_Break(m, j, st, input, only, exclude) ==
    IF j > Len(m.names) \/ st.exc # "none" THEN st
    ELSE LET name == m.names[j]
         IN  IF Skipped(name, only, exclude)
             THEN validate_fields_Break(m, j + 1, st, input, only, exclude)
             ELSE LET r == field_validate(st.fields[name], name, input)
                      fields1 == [st.fields EXCEPT ![name].value = r.value]
                      a == add_error(m.messages, st.errors, name, r.out)
                      st1 == [st EXCEPT !.fields = fields1,
                                        !.calls = Append(@, Called("validate", name, r.got, r.out.exc, r.inner))]
                  IN  IF r.out.exc = "none"
                      THEN validate_fields_Break(m, j + 1,
                                [st1 EXCEPT !.data = (name :> r.value) @@ st.data],
                                input, only, exclude)
                      ELSE IF r.out.exc = "ValidationError"
                      THEN [st1 EXCEPT !.errors = a.errors, !.exc = a.exc]
                      ELSE [st1 EXCEPT !.exc = r.out.exc]

\* `for name, field in self._meta.fields.items(): ...`, from the j-th name on.
RECURSIVE validate_fields(_, _, _, _, _, _)
validate_fields(m, j, st, input, only, exclude) ==
    IF j > Len(m.names) \/ st.exc # "none" THEN st
    ELSE IF Skipped(m.names[j], only, exclude)
    THEN validate_fields(m, j + 1, st, input, only, exclude)
    ELSE validate_fields(m, j + 1,
            validated(m, st, m.names[j], field_validate(st.fields[m.names[j]], m.names[j], input)),
            input, only, exclude)

\* Validator.validate with self.data and self.errors kept as the call found them.
Validator_validate_fields_NoReset(m, self_data, self_errors, input, only, exclude) ==
    validate_fields(m, 1, [fields |-> m.fields, data |-> self_data, errors |-> self_errors,
                           exc |-> "none", calls |-> <<>>], input, only, exclude)

\* Validator.validate down to the end of the per-field loop: self.data and self.errors,
\* whatever they hold on entry, are replaced by empty dicts.
Validator_validate_fields(m, self_data, self_errors, input, only, exclude) ==
    validate_fields(m, 1, [fields |-> m.fields, data |-> <<>>, errors |-> <<>>,
                           exc |-> "none", calls |-> <<>>], input, only, exclude)

\* A method a validator class defines: clean_<name>(value) or clean(data).  Identity
\* returns its argument, Const(v) returns v, Raise(key) raises ValidationError(key),
\* With(name, v) returns its argument with data[name] = v, Fault(type) raises an
\* exception of a type other than ValidationError.
Identity == [op |-> "identity", key |-> "", name |-> "", v |-> None]
Const(v) == [op |-> "const", key |-> "", name |-> "", v |-> v]
Raise(key) == [op |-> "raise", key |-> key, name |-> "", v |-> None]
With(name, v) == [op |-> "with", key |-> "", name |-> name, v |-> v]
Fault(type) == [op |-> "fault", key |-> type, name |-> "", v |-> None]

\* method(arg)
CallMethod(method, arg) ==
    CASE method.op = "identity" -> Return(arg)
      [] method.op = "const" -> Return(method.v)
      [] method.op = "raise" -> ValidationError(method.key, <<>>)
      [] method.op = "with" -> Return((method.name :> method.v) @@ arg)
      [] method.op = "fault" -> Raised(method.key)

\* 'clean_{}'.format(name)
clean_(name) == "clean_" \o name

\* clean_fields with the loop left at the first ValidationError of a hook.
RECURSIVE clean_fields_Break(_, _, _, _)
clean_fields_Break(m, h, j, st) ==
    IF j > Len(m.names) \/ st.exc # "none" THEN st
    ELSE LET name == m.names[j]
         IN  IF name \notin DOMAIN st.data \/ name \notin DOMAIN h.clean_fields
             THEN clean_fields_Break(m, h, j + 1, st)
             ELSE LET o == CallMethod(h.clean_fields[name], st.data[name])
                      a == add_error(m.messages, st.errors, name, o)
                      st1 == [st EXCEPT !.calls = Append(@, Called(clean_(name), name, st.data[name],
                                                                   o.exc, "none"))]
                  IN  IF o.exc = "none"
                      THEN clean_fields_Break(m, h, j + 1, [st1 EXCEPT !.data[name] = o.v])
                      ELSE IF o.exc = "ValidationError"
                      THEN [st1 EXCEPT !.errors = a.errors, !.exc = a.exc]
                      ELSE [st1 EXCEPT !.exc = o.exc]

\* Validator.clean_fields(self.data), from the j-th name on.
RECURSIVE clean_fields(_, _, _, _)
clean_fields(m, h, j, st) ==
    IF j > Len(m.names) \/ st.exc # "none" THEN st
    ELSE LET name == m.names[j]
         IN  IF name \notin DOMAIN st.data \/ name \notin DOMAIN h.clean_fields
             THEN clean_fields(m, h, j + 1, st)
             ELSE LET o == CallMethod(h.clean_fields[name], st.data[name])
                      a == add_error(m.messages, st.errors, name, o)
                      st1 == [st EXCEPT !.calls = Append(@, Called(clean_(name), name, st.data[name],
                                                                   o.exc, "none"))]
                  IN  IF o.exc = "none"
                      THEN clean_fields(m, h, j + 1, [st1 EXCEPT !.data[name] = o.v])
                      ELSE IF o.exc = "ValidationError"
                      THEN clean_fields(m, h, j + 1, [st1 EXCEPT !.errors = a.errors, !.exc = a.exc])
                      ELSE [st1 EXCEPT !.exc = o.exc]

\* The clean_fields stage entered whatever self.errors holds.
Validator_validate_clean_fields_Always(m, h, st) == clean_fields(m, h, 1, st)

\* `if not self.errors: self.clean_fields(self.data)`
Validator_validate_clean_fields(m, h, st) ==
    IF st.errors = <<>> THEN clean_fields(m, h, 1, st) ELSE st

BaseKey == "__base__"

\* The clean stage with the error of clean() filed under the first field's name.
Validator_validate_clean_FirstField(m, h, st) ==
    IF st.errors # <<>> THEN st
    ELSE LET o == CallMethod(h.clean, st.data)
             a == add_error(m.messages, st.errors, m.names[1], o)
             st1 == [st EXCEPT !.calls = Append(@, Called("clean", BaseKey, None, o.exc, "none"))]
         IN  IF o.exc = "none" THEN [st1 EXCEPT !.data = o.v]
             ELSE IF o.exc = "ValidationError" THEN [st1 EXCEPT !.errors = a.errors, !.exc = a.exc]
             ELSE [st1 EXCEPT !.exc = o.exc]

\* `if not self.errors: try: self.data = self.clean(self.data) except ValidationError ...`
Validator_validate_clean(m, h, st) ==
    IF st.errors # <<>> THEN st
    ELSE LET o == CallMethod(h.clean, st.data)
             a == add_error(m.messages, st.errors, BaseKey, o)
             st1 == [st EXCEPT !.calls = Append(@, Called("clean", BaseKey, None, o.exc, "none"))]
         IN  IF o.exc = "none" THEN [st1 EXCEPT !.data = o.v]
             ELSE IF o.exc = "ValidationError" THEN [st1 EXCEPT !.errors = a.errors, !.exc = a.exc]
             ELSE [st1 EXCEPT !.exc = o.exc]

\* `return (not self.errors)`
Validator_validate_return(errs) == BoolV(errs = <<>>)

---------------------------------------------------------------------------
(* ModelValidator.  A peewee model is [columns, names, indexes, many]: columns maps a *)
(* column name to its declaration, names lists them in declaration order after the    *)
(* primary key "id", indexes is Meta.indexes, many lists the ManyToManyField           *)
(* attributes of the class.  A record and a row of the table are functions from "id"   *)
(* and the column names to values; a row of a through table is [source, target].       *)

Id == "id"

Column(field_type, null, choices, default, max_length, unique) ==
    [field_type |-> field_type, null |-> null, choices |-> choices, default |-> default,
     max_length |-> max_length, unique |-> unique]

Index(columns, unique) == [columns |-> columns, unique |-> unique]

\* ManyToManyField(rel_model): name is the attribute, rel_model the rows of the related
\* table.
ManyToManyField(name, rel_model) == [name |-> name, rel_model |-> rel_model]

NoModel == [columns |-> <<>>, names |-> <<>>, indexes |-> <<>>, many |-> <<>>]

\* ModelValidator.FIELD_MAP.get(field_type, StringField)
FIELD_MAP(field_type) ==
    CASE field_type \in {"smallint", "bigint", "int"} -> "IntegerField"
      [] field_type = "bool" -> "BooleanField"
      [] field_type = "date" -> "DateField"
      [] field_type = "datetime" -> "DateTimeField"
      [] field_type = "decimal" -> "DecimalField"
      [] field_type \in {"double", "float"} -> "FloatField"
      [] field_type = "time" -> "TimeField"
      [] OTHER -> "StringField"

\* pwv_field(default=default, validators=validators)
pwv_field(kind, default, validators) ==
    CASE kind = "StringField" -> StringField(FALSE, None, None, default, validators)
      [] kind = "BooleanField" -> BooleanField(FALSE, default, validators)
      [] OTHER -> RangeField__init__(kind, FALSE, None, None, default, validators)

\* ModelValidator.convert_field(name, field), for a column that is no relation.
convert_field(name, f, pk) ==
    LET required == ~f.null
        v1 == IF required THEN <<validate_required>> ELSE <<>>
        v2 == IF f.choices # <<>>
              THEN Append(v1, validate_one_of([j \in 1..Len(f.choices) |-> f.choices[j][1]]))
              ELSE v1
        v3 == IF Truthy(f.max_length) THEN Append(v2, validate_length(None, f.max_length, None))
              ELSE v2
        v4 == IF f.unique THEN Append(v3, validate_model_unique(name, pk)) ELSE v3
    IN  pwv_field(FIELD_MAP(f.field_type), f.default, v4)

\* The names of declared that model_names lacks, in the order of declared.
RECURSIVE Added(_, _)
Added(model_names, declared) ==
    IF declared = <<>> THEN <<>>
    ELSE IF Has(model_names, Head(declared)) THEN Added(model_names, Tail(declared))
    ELSE <<Head(declared)>> \o Added(model_names, Tail(declared))

\* ModelValidator.convert_field(name, field) for a ManyToManyField, which has none of
\* null, choices, max_length and unique and no default.
convert_many(f) == ManyModelChoiceField(f.rel_model, Id, FALSE, NoDefault, <<>>)

\* The keys of instance._meta.fields: the primary key, then the columns declared.
meta_fields(model) == <<Id>> \o model.names

\* getattr(field, 'primary_key', False) of the column called name.
primary_key(name) == name = Id

\* The names of the many-to-many fields of the model.
ManyNames(model) == [j \in 1..Len(model.many) |-> model.many[j].name]

\* ModelValidator.initialize_fields: the model's columns converted, then its
\* many-to-many fields, then the Field attributes the class declares (declared, with
\* declared_names in dir() order) over them.
ModelValidator_initialize_fields(model, pk, declared, declared_names) ==
    LET derived == SelectSeq(meta_fields(model), LAMBDA name : ~primary_key(name))
                   \o ManyNames(model)
    IN  [fields |-> declared
                    @@ [n \in DOMAIN model.columns |-> convert_field(n, model.columns[n], pk)]
                    @@ [n \in {model.many[j].name : j \in 1..Len(model.many)} |->
                            convert_many(model.many[CHOOSE j \in 1..Len(model.many) :
                                                        model.many[j].name = n])],
         names |-> derived \o Added(derived, declared_names)]

\* getattr(self.instance, name, None)
getattr(inst, name) == IF name \in DOMAIN inst THEN inst[name] ELSE None

\* The seeding loop with data[name] = getattr(...) in the place of data.setdefault.
RECURSIVE seed_Assign(_, _, _, _, _, _)
seed_Assign(names, j, inst, d, only, exclude) ==
    IF j > Len(names) THEN d
    ELSE IF Skipped(names[j], only, exclude)
    THEN seed_Assign(names, j + 1, inst, d, only, exclude)
    ELSE seed_Assign(names, j + 1, inst, (names[j] :> getattr(inst, names[j])) @@ d, only, exclude)

\* The seeding loop of ModelValidator.validate over instance._meta.fields (names, the
\* primary key first): data.setdefault(name, getattr(self.instance, name, None)).
RECURSIVE seed(_, _, _, _, _, _)
seed(names, j, inst, d, only, exclude) ==
    IF j > Len(names) THEN d
    ELSE IF Skipped(names[j], only, exclude) \/ names[j] \in DOMAIN d
    THEN seed(names, j + 1, inst, d, only, exclude)
    ELSE seed(names, j + 1, inst, d @@ (names[j] :> getattr(inst, names[j])), only, exclude)

\* `only or self._meta.only`
Or(given, configured) == IF given # <<>> THEN given ELSE configured

\* ModelValidator.validate down to the super().validate() call: the data, only and
\* exclude it hands over.
ModelValidator_validate_seed(m, inst, d, only, exclude) ==
    LET only1 == Or(only, m.only)
        exclude1 == Or(exclude, m.exclude)
    IN  [data |-> seed(<<Id>> \o m.model.names, 1, inst, d, only1, exclude1),
         only |-> only1, exclude |-> exclude1]

\* The rows a query for the values of index finds, the record of identity pk left out
\* when pk is true.
filter(rows, index, pk) ==
    {r \in rows : /\ \A col \in DOMAIN index : r[col] = index[col]
                  /\ Truthy(pk) => r[Id] # pk}

\* `for col in index.keys(): self.add_error(col, err)`, from the j-th column on.
RECURSIVE add_errors(_, _, _, _, _)
add_errors(messages, st, columns, j, err) ==
    IF j > Len(columns) \/ st.exc # "none" THEN st
    ELSE LET a == add_error(messages, st.errors, columns[j], err)
         IN  add_errors(messages, [st EXCEPT !.errors = a.errors, !.exc = a.exc], columns, j + 1, err)

\* ModelValidator.perform_index_validation(data), from the j-th of Meta.indexes on.
RECURSIVE perform_index_validation(_, _, _, _, _, _)
perform_index_validation(m, pk, rows, d, j, st) ==
    IF j > Len(m.model.indexes) \/ st.exc # "none" THEN st
    ELSE LET ix == m.model.indexes[j]
             index == [col \in {ix.columns[n] : n \in 1..Len(ix.columns)} |-> get(d, col)]
             err == ValidationError("index",
                        <<Kw("fields", StrV(join(CommaSpace, [n \in 1..Len(ix.columns) |-> <<ix.columns[n]>>])))>>)
         IN  IF ~ix.unique \/ filter(rows, index, pk) = {}
             THEN perform_index_validation(m, pk, rows, d, j + 1, st)
             ELSE perform_index_validation(m, pk, rows, d, j + 1,
                        add_errors(m.messages, st, ix.columns, 1, err))

\* perform_index_validation called whatever self.errors holds.
ModelValidator_validate_index_Always(m, pk, rows, st) ==
    perform_index_validation(m, pk, rows, st.data, 1, st)

\* `if not self.errors: self.perform_index_validation(self.data)`
ModelValidator_validate_index(m, pk, rows, st) ==
    IF st.errors = <<>> THEN perform_index_validation(m, pk, rows, st.data, 1, st) ELSE st

\* ModelValidator.validate returning what super().validate() returned.
ModelValidator_validate_return_Super(super_result, errs) == super_result

\* `return (not self.errors)`: the value super().validate() returned is dropped.
ModelValidator_validate_return(super_result, errs) == BoolV(errs = <<>>)

\* The table's constraints on a row beside the others: NOT NULL columns, UNIQUE columns
\* and unique indexes.
Violates(model, row, others) ==
    \/ \E n \in DOMAIN model.columns : ~model.columns[n].null /\ row[n] = None
    \/ \E n \in DOMAIN model.columns :
            model.columns[n].unique /\ row[n] # None /\ \E r \in others : r[n] = row[n]
    \/ \E j \in 1..Len(model.indexes) :
            /\ model.indexes[j].unique
            /\ \E r \in others : \A n \in 1..Len(model.indexes[j].columns) :
                    LET col == model.indexes[j].columns[n] IN row[col] # None /\ r[col] = row[col]

\* The row of a record: its primary key and its columns.
RowOf(model, inst) == [n \in {Id} \cup DOMAIN model.columns |-> inst[n]]

\* The next AUTOINCREMENT key.
NextId(rows) ==
    IF rows = {} THEN 1 ELSE 1 + (CHOOSE n \in {r[Id].i : r \in rows} : \A r \in rows : r[Id].i <= n)

\* instance.save(): UPDATE the row of the record's primary key when it has one, else
\* INSERT and take the new key; IntegrityError when the table's constraints reject the
\* row.  The outcome returns the rows modified.
Model_save(model, inst, rows) ==
    IF inst[Id] # None
    THEN LET old == {r \in rows : r[Id] = inst[Id]}
             row == RowOf(model, inst)
         IN  IF old = {} THEN [out |-> Return(IntV(0)), instance |-> inst, db |-> rows]
             ELSE IF Violates(model, row, rows \ old)
             THEN [out |-> Raised("IntegrityError"), instance |-> inst, db |-> rows]
             ELSE [out |-> Return(IntV(1)), instance |-> inst, db |-> (rows \ old) \cup {row}]
    ELSE LET saved == [inst EXCEPT ![Id] = IntV(NextId(rows))]
         IN  IF Violates(model, RowOf(model, saved), rows)
             THEN [out |-> Raised("IntegrityError"), instance |-> inst, db |-> rows]
             ELSE [out |-> Return(IntV(1)), instance |-> saved, db |-> rows \cup {RowOf(model, saved)}]

\* The keys of a set in some order.
RECURSIVE Listed(_)
Listed(keys) ==
    IF keys = {} THEN <<>> ELSE LET k == CHOOSE k \in keys : TRUE IN <<k>> \o Listed(keys \ {k})

\* The keys of self.data in the order of self.data.items(): the fields in the order the
\* per-field loop stored them, then what clean() added.
items(m, d) ==
    SelectSeq(m.names, LAMBDA name : name \in DOMAIN d)
    \o Listed({k \in DOMAIN d : ~Has(m.names, k)})

\* The first loop of ModelValidator.save, from the j-th key on: st is [instance,
\* delayed, calls], delayed the names of the many-to-many values set aside.
RECURSIVE set_fields(_, _, _, _, _)
set_fields(model, d, keys, j, st) ==
    IF j > Len(keys) THEN st
    ELSE IF Has(ManyNames(model), keys[j])
    THEN set_fields(model, d, keys, j + 1,
            IF d[keys[j]] # None THEN [st EXCEPT !.delayed = Append(@, keys[j])] ELSE st)
    ELSE set_fields(model, d, keys, j + 1,
            [st EXCEPT !.instance = (keys[j] :> d[keys[j]]) @@ @,
                       !.calls = Append(@, Called("setattr", keys[j], d[keys[j]], "none", "none"))])

\* setattr(self.instance, field, value) for a many-to-many field: the rows of the
\* record in the through table are replaced by one for each record of value; a record
\* with no primary key has none to give them (IntegrityError).
set_many(inst, name, value, links) ==
    IF inst[Id] = None THEN [exc |-> "IntegrityError", through |-> links]
    ELSE [exc |-> "none",
          through |-> {l \in links : l.source # inst[Id]}
                      \cup {[source |-> inst[Id], target |-> pairs_get(value.s[j].s, Id)]
                             : j \in 1..Len(value.s)}]

\* The last loop of ModelValidator.save, from the j-th delayed name on: st is [through,
\* calls, exc].
RECURSIVE set_delayed(_, _, _, _, _)
set_delayed(inst, d, delayed, j, st) ==
    IF j > Len(delayed) \/ st.exc # "none" THEN st
    ELSE LET r == set_many(inst, delayed[j], d[delayed[j]], st.through)
         IN  set_delayed(inst, d, delayed, j + 1,
                [through |-> r.through, exc |-> r.exc,
                 calls |-> Append(st.calls, Called("setattr", delayed[j], d[delayed[j]], r.exc, "none"))])

\* ModelValidator.save() with the many-to-many values assigned before instance.save().
ModelValidator_save_NoDelay(m, inst, self_data, rows, links) ==
    LET s1 == set_fields(m.model, self_data, items(m, self_data), 1,
                         [instance |-> inst, delayed |-> <<>>, calls |-> <<>>])
        s2 == set_delayed(s1.instance, self_data, s1.delayed, 1,
                          [through |-> links, calls |-> s1.calls, exc |-> "none"])
        p == Model_save(m.model, s1.instance, rows)
    IN  IF s2.exc # "none"
        THEN [out |-> Raised(s2.exc), instance |-> s1.instance, db |-> rows,
              through |-> s2.through, calls |-> s2.calls]
        ELSE [out |-> p.out, instance |-> p.instance, db |-> p.db, through |-> s2.through,
              calls |-> Append(s2.calls, Called("save", "", p.out.v, p.out.exc, "none"))]

\* ModelValidator.save(): setattr for every item of self.data that is no many-to-many
\* value, instance.save(), setattr for the many-to-many values; returns what
\* instance.save() returned.
ModelValidator_save(m, inst, self_data, rows, links) ==
    LET s1 == set_fields(m.model, self_data, items(m, self_data), 1,
                         [instance |-> inst, delayed |-> <<>>, calls |-> <<>>])
        p == Model_save(m.model, s1.instance, rows)
        saved == Append(s1.calls, Called("save", "", p.out.v, p.out.exc, "none"))
        s2 == set_delayed(p.instance, self_data, s1.delayed, 1,
                          [through |-> links, calls |-> saved, exc |-> "none"])
    IN  IF p.out.exc # "none"
        THEN [out |-> p.out, instance |-> p.instance, db |-> p.db, through |-> links,
              calls |-> saved]
        ELSE [out |-> IF s2.exc = "none" THEN p.out ELSE Raised(s2.exc),
              instance |-> p.instance, db |-> p.db, through |-> s2.through, calls |-> s2.calls]

---------------------------------------------------------------------------
(* The configurations and inputs the specifications draw from *)

MaxNum == 2         \* configured bounds range over 0..MaxNum, numeric inputs one past each end
MaxChecks == 2      \* the longest validators list a caller passes to a field constructor

Nums == (0 - 1)..(MaxNum + 1)
Bounds == {None} \cup {IntV(n) : n \in 0..MaxNum}
XAtLocalhost == <<"x", "@">> \o Localhost
Strings == {<<>>, <<" ">>, <<"x">>, Jan1, XAtLocalhost} \cup {IntChars(n) : n \in Nums}
Values == {None} \cup {IntV(n) : n \in Nums} \cup {StrV(cs) : cs \in Strings}
TemporalValues ==
    {None, IntV(0), IntV(1), StrV(<<>>), StrV(<<"x">>), StrV(Jan1), DateV(1), TimeV(0), DateTimeV(1)}
TemporalKinds == {"DateField", "TimeField", "DateTimeField"}

\* dateutil is given only the strings dateutil_parse is defined on.
InputsFor(kind) == IF kind \in TemporalKinds THEN TemporalValues ELSE Values

RejectsNone == custom_validator("custom", <<None>>)

Checks ==
    {validate_not_empty, validate_length(IntV(1), IntV(2), None),
     validate_length(None, None, IntV(1)), validate_one_of(<<StrV(<<"x">>), IntV(1)>>),
     validate_none_of(<<StrV(<<"x">>)>>), validate_none_of(<<None, StrV(<<"x">>)>>),
     validate_range(IntV(0), IntV(MaxNum)), validate_equal(StrV(<<"x">>)),
     validate_matches("other"), validate_regexp(DigitsPattern),
     validate_function("is_one", <<IntV(1), StrV(<<"1">>)>>), validate_email, RejectsNone}

SeqChecks ==
    {RejectsNone, validate_length(IntV(1), IntV(2), None), validate_one_of(<<StrV(<<"x">>), IntV(1)>>),
     validate_range(IntV(0), IntV(MaxNum)), validate_not_empty}

ValidatorLists ==
    {<<c>> : c \in Checks} \cup UNION {[1..n -> SeqChecks] : n \in 0..MaxChecks}

\* The rows of a related table: two, with the keys 1 and 2.
RelatedRow(n) == [id |-> IntV(n), name |-> StrV(<<"n", "e", "w", DigitChar(n)>>)]
Related == {RelatedRow(1), RelatedRow(2)}
Missing == 33       \* a key no row of a related table has

RelationFields ==
    {ModelChoiceField(Related, "id", r, NoDefault, <<>>) : r \in BOOLEAN}
    \cup {ManyModelChoiceField(Related, "id", r, NoDefault, <<>>) : r \in BOOLEAN}

\* What a caller gives for one related record: a key (an int or its literal), a dict or
\* a record with or without one, a blank.
Singles ==
    {IntV(1), IntV(2), IntV(Missing), IntV(0), StrV(<<"1">>), StrV(<<"x">>), StrV(<<>>),
     DictV(<<<<"id", IntV(1)>>>>), DictV(<<<<"id", IntV(Missing)>>>>), DictV(<<>>),
     DictV(<<<<"name", StrV(<<"x">>)>>>>),
     record(RelatedColumns, RelatedRow(2)),
     record(RelatedColumns, [id |-> None, name |-> StrV(<<"x">>)])}

Lists ==
    {ListV(<<>>)} \cup {ListV(<<a>>) : a \in Singles}
    \cup {ListV(<<a, b>>) : a \in Singles, b \in {IntV(2), IntV(Missing), DictV(<<>>)}}

RelationInputs(kind) ==
    IF kind = "ModelChoiceField" THEN {None} \cup Singles ELSE {None} \cup Singles \cup Lists

Defaults == {Default(IntV(0)), Default(StrV(<<"x">>)), CallableDefault(IntV(0))}

FieldObjects ==
    {Field(r, NoDefault, vs) : r \in BOOLEAN, vs \in ValidatorLists}
    \cup {StringField(r, None, None, NoDefault, vs) : r \in BOOLEAN, vs \in ValidatorLists}
    \cup UNION {{StringField(r, hi, lo, NoDefault, vs) : r \in BOOLEAN, vs \in {<<>>, <<RejectsNone>>}}
                : lo \in Bounds, hi \in Bounds}
    \cup UNION {{IntegerField(r, lo, hi, NoDefault, vs), FloatField(r, lo, hi, NoDefault, vs),
                 DecimalField(r, lo, hi, NoDefault, vs)} : r \in BOOLEAN, lo \in Bounds, hi \in Bounds,
                 vs \in {<<>>, <<RejectsNone>>}}
    \cup UNION {{DateField(r, None, None, NoDefault, vs), TimeField(r, None, None, NoDefault, vs),
                 DateTimeField(r, None, None, NoDefault, vs), BooleanField(r, NoDefault, vs)}
                 : r \in BOOLEAN, vs \in {<<>>, <<RejectsNone>>}}
    \cup UNION {{Field(r, d, <<>>), StringField(r, None, None, d, <<>>),
                 IntegerField(r, None, None, d, <<>>), FloatField(r, None, None, d, <<>>)}
                 : r \in BOOLEAN, d \in Defaults}
    \cup RelationFields

OtherKeys == {<<>>, "other" :> StrV(<<"x">>)}
InputsOf(kind) ==
    IF kind \in {"ModelChoiceField", "ManyModelChoiceField"}
    THEN {<<>>} \cup {("f" :> v) : v \in RelationInputs(kind)}
    ELSE OtherKeys \cup {("f" :> v) @@ o : v \in InputsFor(kind), o \in OtherKeys}

---------------------------------------------------------------------------
(* SpecField: a Field object is constructed and validates one input.  Field.validate *)
(* overwrites the value slot before it reads it, so a call depends on no earlier one; *)
(* sequences of calls are explored on the validators below.                           *)

NoCall ==
    [st |-> "none", data |-> <<>>, out |-> Return(None), got |-> None, coerced |-> FALSE,
     called |-> <<>>, lookups |-> <<>>, inner |-> "none"]

NoAdded == [st |-> "none", name |-> "", error |-> Return(None), exc |-> "none"]
NoMeta == [fields |-> <<>>, names |-> <<>>, messages |-> <<>>, only |-> <<>>, exclude |-> <<>>,
           model |-> NoModel]
NoHooks == [clean_fields |-> <<>>, clean |-> Identity]
NoArgs ==
    [passed |-> <<>>, data |-> <<>>, only |-> <<>>, exclude |-> <<>>,
     super |-> [data |-> <<>>, only |-> <<>>, exclude |-> <<>>], again |-> FALSE]
\* No list object exists and no list is supplied.
NoHeap == [lists |-> <<>>, given |-> [ref |-> 0, items |-> <<>>], fields |-> <<>>]
NoRet == [op |-> "none", exc |-> "none", v |-> None, validated |-> FALSE]
NoInstance == <<>>

\* No validator is constructed (the specification is about something else).
NoValidator ==
    /\ meta = NoMeta /\ hooks = NoHooks /\ cls = <<>> /\ heap = NoHeap /\ data = <<>> /\ errors = <<>> /\ pc = "idle"
    /\ args = NoArgs /\ ret = NoRet /\ instance = NoInstance /\ pk_value = None /\ db = {}
    /\ saves = 0 /\ through = {} /\ calls = <<>>

InitField ==
    /\ field \in FieldObjects
    /\ call = NoCall
    /\ added = NoAdded
    /\ NoValidator

\* field.validate("f", input) ended as r.
FieldValidated(input, r) ==
    /\ field' = [field EXCEPT !.value = r.value]
    /\ call' = [st |-> "done", data |-> input, out |-> r.out, got |-> r.got,
                coerced |-> r.coerced, called |-> r.called, lookups |-> r.lookups,
                inner |-> r.inner]
    /\ UNCHANGED <<added, validatorVars>>

\* field.validate("f", input)
FieldValidate ==
    /\ call.st = "none"
    /\ \E input \in InputsOf(field.kind) :
        FieldValidated(input, field_validate(field, "f", input))

NextField == FieldValidate

SpecField == InitField /\ [][NextField]_vars

---------------------------------------------------------------------------
(* SpecMessages: add_error on a validator whose Meta overrides messages *)

\* The keys a Meta.messages of the model overrides, each with the empty string or a text
\* of its own, and range_between with a template that formats the error's arguments.
OverrideKeys == {"field1.required", "required", "field1.custom", "custom"}
OverrideText(key) == <<Lit("override " \o key)>>
MessageOverrides ==
    UNION {{m @@ r : m \in [K -> {"", "text"}], r \in {<<>>, [range_between |-> <<Ph("low"), Lit(".."), Ph("high")>>]}}
           : K \in SUBSET OverrideKeys}
Overrides(m) == [key \in DOMAIN m |-> IF m[key] = "" THEN <<>> ELSE IF m[key] = "text" THEN OverrideText(key) ELSE m[key]]

SampleErrors ==
    {ValidationError("required", <<>>), ValidationError("custom", <<>>),
     ValidationError("coerce_int", <<>>),
     ValidationError("range_between", <<Kw("low", IntV(1)), Kw("high", None)>>)}
SampleNames == {"field1", "field2"}

InitMessages ==
    /\ field = Field(FALSE, NoDefault, <<>>) /\ call = NoCall /\ added = NoAdded
    /\ \E m \in MessageOverrides : meta = [NoMeta EXCEPT !.messages = Overrides(m)]
    /\ hooks = NoHooks /\ cls = <<>> /\ heap = NoHeap /\ data = <<>> /\ errors = <<>> /\ pc = "idle"
    /\ args = NoArgs /\ ret = NoRet /\ instance = NoInstance /\ pk_value = None /\ db = {}
    /\ saves = 0 /\ through = {} /\ calls = <<>>

\* self.add_error(name, error)
AddError ==
    \E name \in SampleNames, error \in SampleErrors :
        LET r == add_error(meta.messages, errors, name, error)
        IN  /\ errors' = r.errors
            /\ added' = [st |-> "done", name |-> name, error |-> error, exc |-> r.exc]
            /\ UNCHANGED <<fieldVars, meta, hooks, cls, heap, data, pc, args, ret, instance, pk_value, db, saves,
                           through, calls>>

NextMessages == AddError

SpecMessages == InitMessages /\ [][NextMessages]_vars

\* The template of the first of the lookups that yields one, by `present`.
Resolved(present(_), name, key) ==
    IF present(DottedKey(name, key)) THEN meta.messages[DottedKey(name, key)]
    ELSE IF present(key) THEN meta.messages[key]
    ELSE IF key \in DOMAIN DEFAULT_MESSAGES THEN DEFAULT_MESSAGES[key]
    ELSE ValidationFailed

Overridden(key) == key \in DOMAIN meta.messages
OverriddenNonEmpty(key) == key \in DOMAIN meta.messages /\ meta.messages[key] # <<>>

\* C10 as stated: errors[F] is the formatted first that exists of the override "F.K",
\* the override "K", the default for K and "Validation failed.".
C10_Original ==
    (added.st = "done" /\ added.exc = "none") =>
        errors[added.name] = format(Resolved(Overridden, added.name, added.error.key), added.error.kwargs).text

\* C10 (amended): errors[F] is the formatted first of the override "F.K" when it is not
\* the empty string, the override "K" when it is not the empty string, the default for
\* K, and "Validation failed."; an empty override counts as absent.
C10_FirstNonEmptyMessage ==
    (added.st = "done" /\ added.exc = "none") =>
        errors[added.name] = format(Resolved(OverriddenNonEmpty, added.name, added.error.key), added.error.kwargs).text

\* An error was added on a field that has an override of its own beside a bare-kind
\* override, both with text, and the field's own one was stored.
C10_Witness ==
    /\ added.st = "done"
    /\ OverriddenNonEmpty(DottedKey(added.name, added.error.key))
    /\ OverriddenNonEmpty(added.error.key)
    /\ errors[added.name] = "override " \o DottedKey(added.name, added.error.key)

---------------------------------------------------------------------------
(* Field-level properties, under SpecField *)

\* The value Field.validate extracted in the recorded call.
Extracted == get_value(field, "f", call.data)

\* The value the checks of the recorded call saw: the one the call left in the slot,
\* but for a relation field, whose lookup replaces the key by the record afterwards.
Checked ==
    IF field.kind \in {"ModelChoiceField", "ManyModelChoiceField"} /\ Extracted # None
    THEN coerce_of(field, Extracted).v
    ELSE field.value

\* The outcome of the j-th check of the field on that value.
CheckOutcome(j) == RunCheck(field.validators[j], Checked, call.data)

\* C5: Field.validate calls the checks in list order and stops at the first check that
\* raises: the checks called are the first k of the list, each of them but the last
\* returned, a raised outcome is the outcome of the last check called, and every check
\* was called when the field validated.  The call has the one outcome.
C5_StopsAtFirstFailingCheck ==
    call.st = "done" =>
        /\ call.called = [j \in 1..Len(call.called) |-> j]
        /\ Len(call.called) <= Len(field.validators)
        /\ \A j \in 1..(Len(call.called) - 1) : CheckOutcome(j).exc = "none"
        /\ (call.out.exc # "none" /\ call.called # <<>> /\ call.inner = "none") =>
                call.out = CheckOutcome(Len(call.called))
        /\ call.out.exc = "none" => Len(call.called) = Len(field.validators)

\* A check raised ValidationError and a check placed after it was left uncalled.
C5_Witness ==
    /\ call.st = "done"
    /\ call.out.exc = "ValidationError"
    /\ call.called # <<>>
    /\ Len(call.called) < Len(field.validators)

\* C6: a field declared required=True with no default, whatever its other checks,
\* validating an input that omits it, ends in ValidationError `required` and in nothing
\* else.  (Field.__init__ appends the required check after the checks of the caller and
\* of the subclass, so a check before it that raises on None decides the outcome.)
C6_RequiredMissingReportsRequired ==
    (call.st = "done" /\ field.required /\ field.default = NoDefault /\ "f" \notin DOMAIN call.data) =>
        call.out = ValidationError("required", <<>>)

CoercingKinds ==
    {"IntegerField", "FloatField", "DecimalField", "DateField", "TimeField", "DateTimeField"}

CoerceKey(kind) ==
    CASE kind = "IntegerField" -> "coerce_int" [] kind = "FloatField" -> "coerce_float"
      [] kind = "DecimalField" -> "coerce_decimal" [] kind = "DateField" -> "coerce_date"
      [] kind = "TimeField" -> "coerce_time" [] kind = "DateTimeField" -> "coerce_datetime"

\* Whether v can be converted to the target type of a field of this kind: the type's
\* constructor, or for the temporal kinds an instance of the type or a string dateutil parses.
Convertible(kind, v) ==
    CASE kind = "IntegerField" -> int(v).exc = "none"
      [] kind = "FloatField" -> float(v).exc = "none"
      [] kind = "DecimalField" -> Decimal(v).exc = "none"
      [] kind = "DateField" -> IsDate(v) \/ dateutil_parse(v).exc = "none"
      [] kind = "TimeField" -> v.k = "time" \/ dateutil_parse(v).exc = "none"
      [] kind = "DateTimeField" -> v.k = "datetime" \/ dateutil_parse(v).exc = "none"
      [] OTHER -> TRUE

\* C7 as stated: an extracted value that is not None and cannot be converted to the
\* field's target type raises coerce_<type> before any check is called; coerce is not
\* called for None.
C7_Original ==
    call.st = "done" =>
        /\ (Extracted # None /\ ~Convertible(field.kind, Extracted)) =>
                (call.out = ValidationError(CoerceKey(field.kind), <<>>) /\ call.called = <<>>)
        /\ Extracted = None => ~call.coerced

\* C7 (amended): an extracted value that is not None, that is truthy unless the field is
\* an IntegerField, and that cannot be converted to the field's target type raises
\* coerce_<type> before any check is called; coerce is not called for None.
C7_CoerceFailureOfTruthyValue ==
    call.st = "done" =>
        /\ (/\ Extracted # None
            /\ field.kind = "IntegerField" \/ Truthy(Extracted)
            /\ ~Convertible(field.kind, Extracted)) =>
                (call.out = ValidationError(CoerceKey(field.kind), <<>>) /\ call.called = <<>>)
        /\ Extracted = None => ~call.coerced

\* A field with checks of its own was given a value its type rejects and reported the
\* coerce kind with no check called.
C7_Witness ==
    /\ call.st = "done"
    /\ field.kind \in CoercingKinds
    /\ field.validators # <<>>
    /\ Extracted # None /\ ~Convertible(field.kind, Extracted)
    /\ call.out = ValidationError(CoerceKey(field.kind), <<>>)
    /\ call.called = <<>>

ListedChecks ==
    {"not_empty", "length", "range", "one_of", "none_of", "equal", "matches", "regexp",
     "function", "email"}

\* C8: with the field's value None, every constraint check other than required returns
\* without raising, however it is configured.
C8_ChecksReturnOnNone ==
    (call.st = "done" /\ field.value = None) =>
        \A j \in 1..Len(call.called) :
            field.validators[j].op \in ListedChecks => CheckOutcome(j).exc = "none"

\* The kind the bounds of c call for on a measure n ("" when n is within them).
BoundKind(prefix, c, n) ==
    IF c.low # None /\ c.high # None
    THEN IF n < c.low.i \/ n > c.high.i THEN prefix \o "_between" ELSE ""
    ELSE IF c.low # None THEN IF n < c.low.i THEN prefix \o "_low" ELSE ""
    ELSE IF c.high # None THEN IF n > c.high.i THEN prefix \o "_high" ELSE ""
    ELSE ""

\* C9: the kind a range or length check raises names the bounds configured: the
\* two-sided kind when both are set, the low-only or high-only kind when one is, and
\* nothing for a value within the bounds.
C9_KindEncodesConfiguredBounds ==
    call.st = "done" =>
        \A j \in 1..Len(call.called) :
            LET c == field.validators[j]
            IN  /\ (c.op = "range" /\ IsNumber(field.value)) =>
                        CheckOutcome(j).key = BoundKind("range", c, field.value.i)
                /\ (c.op = "length" /\ c.equal = None /\ field.value.k = "str") =>
                        CheckOutcome(j).key = BoundKind("length", c, Len(field.value.s))

\* C18: Field.get_value(name, input) returns input[name] whenever name is a key of input,
\* None and the empty string included; when name is absent it returns the configured
\* default (what it returns when it is callable), falsy defaults such as 0 included, and
\* None only when no default is configured.
C18_GetValueReturnsInputOrDefault ==
    call.st = "done" =>
        call.got = IF "f" \in DOMAIN call.data THEN call.data["f"] ELSE field.default.v

\* The lookup key of what a caller gave for one related record.
KeyOf(v) == IF v.k \in {"dict", "model"} THEN pairs_get(v.s, field.lookup_field) ELSE v

\* The rows of the related table that the key selects.
Selects(key) ==
    {r \in field.query : int(key).exc = "none" /\ r[field.lookup_field] = int(key).v}

\* The record the key selects.
Selected(key) == record(RelatedColumns, CHOOSE r \in Selects(key) : TRUE)

\* The outcome of a relation field that looked nothing up.
NothingLookedUp ==
    /\ call.lookups = <<>>
    /\ field.value = None
    /\ call.out = IF field.required THEN ValidationError("required", <<>>) ELSE Return(None)

\* C19: a ModelChoiceField reduces a scalar, a dict or a record to the lookup key; a None
\* key is not looked up (the field passes, or reports `required` when required); a key
\* that selects a row leaves the row's record as the value; a key that selects none is
\* reported as `related`.  A ManyModelChoiceField makes a list of keys of a scalar, a
\* dict or a list, drops the blank ones, leaves the list of the records found as the
\* value, and reports `related` when a key that is not blank selects no row.
C19_RelationFieldsResolveKeys ==
    /\ (call.st = "done" /\ field.kind = "ModelChoiceField") =>
            LET key == IF Extracted = None THEN None ELSE KeyOf(Extracted)
            IN  IF key = None THEN NothingLookedUp
                ELSE /\ call.lookups = <<key>>
                     /\ IF Selects(key) # {}
                        THEN call.out.exc = "none" /\ field.value = Selected(key)
                        ELSE call.out.exc = "ValidationError" /\ call.out.key = "related"
    /\ (call.st = "done" /\ field.kind = "ManyModelChoiceField") =>
            IF Extracted = None THEN NothingLookedUp
            ELSE LET members == IF Extracted.k = "list" THEN Extracted.s ELSE <<Extracted>>
                     keys == [j \in 1..Len(members) |-> KeyOf(members[j])]
                     kept == SelectSeq(keys, Truthy)
                 IN  IF \A j \in 1..Len(kept) : Selects(kept[j]) # {}
                     THEN /\ call.out.exc = "none"
                          /\ field.value = ListV([j \in 1..Len(kept) |-> Selected(kept[j])])
                     ELSE call.out.exc = "ValidationError" /\ call.out.key = "related"

\* A list of a key and a blank dict left the list of the one record found.
C19_Witness ==
    /\ call.st = "done"
    /\ field.kind = "ManyModelChoiceField"
    /\ Extracted.k = "list" /\ Len(Extracted.s) = 2
    /\ call.out.exc = "none"
    /\ field.value.k = "list" /\ Len(field.value.s) = 1 /\ field.value.s[1].k = "model"


NumericKinds == {"IntegerField", "FloatField", "DecimalField"}

\* The number of the field's target type with the payload n.
NumberOf(kind, n) ==
    CASE kind = "IntegerField" -> IntV(n) [] kind = "FloatField" -> FloatV(n)
      [] kind = "DecimalField" -> DecV(n)

\* C21: a required IntegerField, FloatField or DecimalField with no other check, given
\* an input in which it is present with the number zero, validates, and its value is
\* the zero of its type, not None.
C21_RequiredNumericZeroValidates ==
    (/\ call.st = "done"
     /\ field.kind \in NumericKinds
     /\ field.validators = <<validate_required>>
     /\ "f" \in DOMAIN call.data
     /\ call.data["f"] = IntV(0)) =>
        /\ call.out.exc = "none"
        /\ field.value = NumberOf(field.kind, 0)

\* The field as its constructor left it, before a call filled the value slot.
Constructed == [field EXCEPT !.value = None]

\* C25: a bound given to a field constructor is enforced whatever its value, 0 included:
\* a numeric field built with low=L rejects a number below L and built with high=H a
\* number above H, a StringField built with min_length=L rejects a shorter string and
\* built with max_length=H a longer one.
C25_BoundShortcutAlwaysEnforced ==
    call.st = "done" =>
        \A r \in BOOLEAN, lo \in Bounds, hi \in Bounds :
            /\ (/\ Constructed \in {IntegerField(r, lo, hi, NoDefault, <<>>),
                              FloatField(r, lo, hi, NoDefault, <<>>),
                              DecimalField(r, lo, hi, NoDefault, <<>>)}
                /\ IsNumber(field.value)
                /\ \/ lo # None /\ field.value.i < lo.i
                   \/ hi # None /\ field.value.i > hi.i) =>
                    call.out.exc = "ValidationError"
            /\ (/\ Constructed = StringField(r, hi, lo, NoDefault, <<>>)
                /\ field.value.k = "str"
                /\ \/ lo # None /\ Len(field.value.s) < lo.i
                   \/ hi # None /\ Len(field.value.s) > hi.i) =>
                    call.out.exc = "ValidationError"

---------------------------------------------------------------------------
(* Spec: a validator is constructed, plain or bound to a record of a model, and takes *)
(* validate() and save() calls.  A validate() call passes through its stages one      *)
(* action each; nothing else runs while a call is in progress.                        *)

MaxSaves == 1       \* the save() calls made on one validator

X == StrV(<<"x">>)
One == StrV(<<"1">>)
Long == StrV([j \in 1..(MaxNum + 1) |-> "x"])

FieldNames == <<"field1", "field2">>

RequiredAndRange ==
    [field1 |-> StringField(TRUE, None, None, NoDefault, <<>>),
     field2 |-> IntegerField(FALSE, IntV(0), IntV(MaxNum), NoDefault, <<>>)]
DefaultAndMatches ==
    [field1 |-> StringField(FALSE, IntV(MaxNum), None, Default(X), <<>>),
     field2 |-> StringField(TRUE, None, None, NoDefault, <<validate_matches("field1")>>)]
NoneOfAndFloat ==
    [field1 |-> Field(FALSE, NoDefault, <<validate_none_of(<<None, X>>)>>),
     field2 |-> FloatField(TRUE, None, None, NoDefault, <<>>)]
PlainFields == {RequiredAndRange, DefaultAndMatches, NoneOfAndFloat}

PlainHooks ==
    {NoHooks,
     [clean_fields |-> ("field1" :> Const(One)), clean |-> Identity],
     [clean_fields |-> ("field1" :> Raise("required")), clean |-> Identity],
     [clean_fields |-> <<>>, clean |-> Raise("custom")],
     [clean_fields |-> ("field2" :> Const(IntV(0))), clean |-> With("extra", X)],
     [clean_fields |-> ("field1" :> Fault("RuntimeError")), clean |-> Identity],
     [clean_fields |-> ("field1" :> Raise("required")) @@ ("field2" :> Raise("custom")),
      clean |-> Identity],
     [clean_fields |-> ("field1" :> Raise("custom")) @@ ("field2" :> Const(IntV(0))),
      clean |-> Identity],
     [clean_fields |-> <<>>, clean |-> Fault("RuntimeError")]}

\* Meta.messages of the model's classes: none, a text for `required`, and a template
\* with a placeholder no error fills.
PlainMessages ==
    {[required |-> <<Lit("override required")>>], [required |-> <<Ph("missing")>>]}

PlainValidator(fields, messages, only, methods) ==
    [meta |-> [fields |-> fields, names |-> FieldNames, messages |-> messages, only |-> only,
               exclude |-> <<>>, model |-> NoModel],
     hooks |-> methods, instance |-> NoInstance, pk_value |-> None, db |-> {}, through |-> {}]

PlainValidators ==
    {PlainValidator(f, <<>>, <<>>, NoHooks) : f \in PlainFields}
    \cup {PlainValidator(RequiredAndRange, <<>>, <<>>, h) : h \in PlainHooks}
    \cup {PlainValidator(RequiredAndRange, m, <<>>, NoHooks) : m \in PlainMessages}
    \cup {PlainValidator(RequiredAndRange, <<>>, <<"field2">>, NoHooks)}

Person ==
    [columns |-> [name |-> Column("varchar", FALSE, <<>>, NoDefault, IntV(MaxNum), TRUE)],
     names |-> <<"name">>,
     indexes |-> <<>>,
     many |-> <<>>]

\* Student, with the many-to-many field courses (the backref of Course.students).
Student ==
    [columns |-> [name |-> Column("varchar", FALSE, <<>>, NoDefault, IntV(MaxNum), FALSE)],
     names |-> <<"name">>,
     indexes |-> <<>>,
     many |-> <<ManyToManyField("courses", Related)>>]

BasicFields ==
    [columns |-> [field1 |-> Column("varchar", FALSE, <<>>, CallableDefault(X), IntV(MaxNum), FALSE),
                  field2 |-> Column("varchar", FALSE, <<>>, NoDefault, IntV(MaxNum), FALSE)],
     names |-> FieldNames,
     indexes |-> <<Index(<<"field1", "field2">>, TRUE), Index(<<"field2">>, FALSE)>>,
     many |-> <<>>]

\* A model of two columns that allow NULL, the second unique, with a unique index on
\* the two.
NullableFields ==
    [columns |-> [field1 |-> Column("varchar", TRUE, <<>>, NoDefault, IntV(MaxNum), FALSE),
                  field2 |-> Column("varchar", TRUE, <<>>, NoDefault, IntV(MaxNum), TRUE)],
     names |-> FieldNames,
     indexes |-> <<Index(<<"field1", "field2">>, TRUE)>>,
     many |-> <<>>]

\* ModelValidator.__init__(instance), for a class with the given Meta.only and methods.
ModelValidator__init__(model, inst, rows, only, methods) ==
    LET pk == getattr(inst, Id)
        f == ModelValidator_initialize_fields(model, pk, <<>>, <<>>)
    IN  [meta |-> [fields |-> f.fields, names |-> f.names, messages |-> <<>>, only |-> only,
                   exclude |-> <<>>, model |-> model],
         hooks |-> methods, instance |-> inst, pk_value |-> pk, db |-> rows, through |-> {}]

PersonRow(n, name) == [id |-> IntV(n), name |-> name]
BasicRow(n, v1, v2) == [id |-> IntV(n), field1 |-> v1, field2 |-> v2]

\* A new record (no primary key, declared defaults applied) or the record of a row; a
\* row's primary key is AUTOINCREMENT's (from 1 up) or one its INSERT gave, such as 0.
PersonStarts ==
    {<<[id |-> None, name |-> None], {}>>,
     <<[id |-> None, name |-> None], {PersonRow(1, X)}>>,
     <<PersonRow(1, X), {PersonRow(1, X)}>>,
     <<PersonRow(1, X), {PersonRow(1, X), PersonRow(2, One)}>>,
     <<PersonRow(0, X), {PersonRow(0, X)}>>}

BasicStarts ==
    {<<[id |-> None, field1 |-> X, field2 |-> None], {}>>,
     <<[id |-> None, field1 |-> X, field2 |-> None], {BasicRow(1, X, One)}>>,
     <<BasicRow(1, X, One), {BasicRow(1, X, One)}>>}

ModelHooks == {NoHooks, [clean_fields |-> <<>>, clean |-> Raise("custom")]}

\* A new Student, and the record of a stored one that has a course.
StudentValidators ==
    {ModelValidator__init__(Student, [id |-> None, name |-> X], {}, <<>>, NoHooks),
     [ModelValidator__init__(Student, PersonRow(1, X), {PersonRow(1, X)}, <<>>, NoHooks)
        EXCEPT !.through = {[source |-> IntV(1), target |-> IntV(2)]}]}

ModelValidators ==
    {ModelValidator__init__(Person, s[1], s[2], <<>>, NoHooks) : s \in PersonStarts}
    \cup {ModelValidator__init__(Person, [id |-> None, name |-> None], {}, <<>>, h) : h \in ModelHooks}
    \cup {ModelValidator__init__(BasicFields, s[1], s[2], <<>>, NoHooks) : s \in BasicStarts}
    \cup {ModelValidator__init__(BasicFields, BasicRow(1, X, One), {BasicRow(1, X, One)},
                                 <<"field1">>, NoHooks)}
    \cup {ModelValidator__init__(BasicFields, [id |-> None, field1 |-> X, field2 |-> None],
                                 {BasicRow(1, X, One)}, <<>>,
                                 h) :
            h \in {[clean_fields |-> ("field1" :> Const(X)), clean |-> Identity],
                   [clean_fields |-> <<>>, clean |-> Raise("custom")]}}

\* A new record of NullableFields, the table holding a row whose second column is NULL.
NullableValidators ==
    {ModelValidator__init__(NullableFields, [id |-> None, field1 |-> None, field2 |-> None],
                            {BasicRow(1, X, None)}, <<>>, NoHooks)}

Validators == PlainValidators \cup ModelValidators \cup StudentValidators \cup NullableValidators

\* The dicts a caller passes: each name left out or given one of a few values.
Absent == [k |-> "absent", i |-> 0, s |-> <<>>]
DictOf(names, vs) ==
    LET keys == {n \in 1..Len(names) : vs[n] # Absent}
    IN  [name \in {names[n] : n \in keys} |-> vs[CHOOSE n \in keys : names[n] = name]]
PlainInputs ==
    {DictOf(FieldNames, <<v1, v2>>) : v1 \in {Absent, None, X, Long},
                                      v2 \in {Absent, X, One}}
PersonInputs == {DictOf(<<"name">>, <<v>>) : v \in {Absent, None, X, One, Long}}
BasicInputs ==
    {DictOf(FieldNames, <<v1, v2>>) : v1 \in {Absent, X, One}, v2 \in {Absent, None, One}}
\* For a Student: the name or not, and courses as a list of keys (all of them stored
\* or not), one key, a list of a record and a blank dict, a literal that is no key, a
\* datetime (which int() takes no key from), or not at all.
StudentInputs ==
    {DictOf(<<"name", "courses">>, <<v, c>>) :
        v \in {Absent, One},
        c \in {Absent, ListV(<<IntV(1), IntV(2)>>), ListV(<<IntV(1), IntV(Missing)>>), IntV(1),
               ListV(<<record(RelatedColumns, RelatedRow(2)), DictV(<<>>)>>), StrV(<<"x">>),
               DateTimeV(1)}}
CallInputs(m) ==
    IF m.model = NoModel THEN PlainInputs
    ELSE IF m.model = Person THEN PersonInputs
    ELSE IF m.model = Student THEN StudentInputs
    ELSE BasicInputs

\* The only and exclude arguments: neither, or one of them naming the first field.
Selections(names) ==
    {[only |-> <<>>, exclude |-> <<>>], [only |-> <<names[1]>>, exclude |-> <<>>],
     [only |-> <<>>, exclude |-> <<names[1]>>]}

IsModel == meta.model # NoModel

Init ==
    /\ field = Field(FALSE, NoDefault, <<>>) /\ call = NoCall /\ added = NoAdded
    /\ \E v \in Validators :
        /\ meta = v.meta /\ hooks = v.hooks /\ cls = <<>> /\ heap = NoHeap
        /\ instance = v.instance /\ pk_value = v.pk_value /\ db = v.db
        /\ through = v.through
    /\ data = <<>> /\ errors = <<>> /\ pc = "idle" /\ args = NoArgs /\ ret = NoRet
    /\ saves = 0 /\ calls = <<>>

Self == [data |-> data, errors |-> errors, exc |-> "none", calls |-> calls]

\* The call with these arguments repeats the call before it, which validated, after a
\* save() that returned.
Again(caller) ==
    /\ ret.op = "save" /\ ret.exc = "none" /\ ret.validated
    /\ caller.passed = args.passed /\ caller.only = args.only /\ caller.exclude = args.exclude

\* The per-field stage is over with st: the call goes on, or ends in st.exc.
EndFields(st, caller, super) ==
    /\ meta' = [meta EXCEPT !.fields = st.fields]
    /\ data' = st.data
    /\ errors' = st.errors
    /\ args' = [passed |-> caller.passed, data |-> caller.data, only |-> caller.only,
                exclude |-> caller.exclude, super |-> super, again |-> Again(caller)]
    /\ pc' = IF st.exc = "none" THEN "fields" ELSE "idle"
    /\ ret' = [op |-> "validate", exc |-> st.exc, v |-> None, validated |-> FALSE]
    /\ calls' = st.calls
    /\ UNCHANGED <<fieldVars, added, hooks, cls, heap, instance, pk_value, db, saves, through>>

\* validator.validate(d, only, exclude) on a Validator, to the end of the per-field stage
Validator_validate ==
    /\ pc = "idle" /\ ~IsModel
    /\ \E d \in CallInputs(meta), s \in Selections(meta.names) :
        EndFields(Validator_validate_fields(meta, data, errors, d, s.only, s.exclude),
                  [passed |-> d, data |-> d, only |-> s.only, exclude |-> s.exclude],
                  [data |-> d, only |-> s.only, exclude |-> s.exclude])

\* validator.validate(d, only, exclude) on a ModelValidator: the seeding loop, then
\* super().validate(data=data, only=only, exclude=exclude) to the end of its per-field
\* stage.  `data or {}` is the caller's dict unless that is empty.
ModelValidator_validate ==
    /\ pc = "idle" /\ IsModel
    /\ \E d \in CallInputs(meta), s \in Selections(meta.names) :
        LET a == ModelValidator_validate_seed(meta, instance, d, s.only, s.exclude)
        IN  EndFields(Validator_validate_fields(meta, data, errors, a.data, a.only, a.exclude),
                      [passed |-> d, data |-> IF d # <<>> THEN a.data ELSE d,
                       only |-> s.only, exclude |-> s.exclude],
                      a)

\* The clean_<name> stage of Validator.validate
CleanFields ==
    /\ pc = "fields"
    /\ LET st == Validator_validate_clean_fields(meta, hooks, Self)
       IN  /\ data' = st.data
           /\ errors' = st.errors
           /\ pc' = IF st.exc = "none" THEN "clean_fields" ELSE "idle"
           /\ ret' = [ret EXCEPT !.exc = st.exc]
           /\ calls' = st.calls
    /\ UNCHANGED <<fieldVars, added, meta, hooks, cls, heap, args, instance, pk_value, db, saves, through>>

\* The clean stage of Validator.validate and its return: to the caller, or to
\* ModelValidator.validate
Clean ==
    /\ pc = "clean_fields"
    /\ LET st == Validator_validate_clean(meta, hooks, Self)
           r == Validator_validate_return(st.errors)
       IN  /\ data' = st.data
           /\ errors' = st.errors
           /\ pc' = IF st.exc = "none" /\ IsModel THEN "index" ELSE "idle"
           /\ ret' = IF st.exc # "none" THEN [ret EXCEPT !.exc = st.exc]
                     ELSE IF IsModel THEN [ret EXCEPT !.v = r]
                     ELSE [ret EXCEPT !.v = r, !.validated = Truthy(r)]
           /\ calls' = st.calls
    /\ UNCHANGED <<fieldVars, added, meta, hooks, cls, heap, args, instance, pk_value, db, saves, through>>

\* The rest of ModelValidator.validate: index validation and the return
IndexValidation ==
    /\ pc = "index"
    /\ LET st == ModelValidator_validate_index(meta, pk_value, db, Self)
           r == ModelValidator_validate_return(ret.v, st.errors)
       IN  /\ errors' = st.errors
           /\ ret' = IF st.exc # "none" THEN [ret EXCEPT !.exc = st.exc, !.v = None]
                     ELSE [ret EXCEPT !.v = r, !.validated = Truthy(r)]
    /\ pc' = "idle"
    /\ UNCHANGED <<fieldVars, added, meta, hooks, cls, heap, data, args, instance, pk_value, db, saves, through,
                   calls>>

\* validator.save() on a ModelValidator
Save ==
    /\ pc = "idle" /\ IsModel
    /\ saves < MaxSaves
    /\ LET r == ModelValidator_save(meta, instance, data, db, through)
       IN  /\ instance' = r.instance
           /\ db' = r.db
           /\ through' = r.through
           /\ calls' = r.calls
           /\ ret' = [op |-> "save", exc |-> r.out.exc, v |-> r.out.v, validated |-> ret.validated]
    /\ saves' = saves + 1
    /\ UNCHANGED <<fieldVars, added, meta, hooks, cls, heap, data, errors, pc, args, pk_value>>

Next ==
    \/ Validator_validate
    \/ ModelValidator_validate
    \/ CleanFields
    \/ Clean
    \/ IndexValidation
    \/ Save

Spec == Init /\ [][Next]_vars

---------------------------------------------------------------------------
(* Validator-level properties, under Spec *)

\* A validate() call has returned to its caller (no exception came out of it).
Returned == pc = "idle" /\ ret.op = "validate" /\ ret.exc = "none"

\* C1: for Validator.validate and ModelValidator.validate alike, whatever the input and
\* the only/exclude selection, the boolean returned is True exactly when errors is empty
\* as the call returns.
C1_ReturnsTrueIffNoErrors ==
    Returned => ret.v = BoolV(errors = <<>>)

\* ModelValidator.validate returned False on errors that index validation added after
\* super().validate() had passed.
C1_Witness ==
    /\ Returned /\ IsModel
    /\ ret.v = BoolV(FALSE)
    /\ \E name \in DOMAIN errors : errors[name] = "Fields must be unique together."

\* C2: a save() call made when the most recent validate() call returned False, errors
\* being non-empty, changes neither the bound record nor the table: no field of a failed
\* pass is written.
C2_SaveWritesNothingAfterFailedPass ==
    [][(Returned /\ errors # <<>> /\ ~ret.validated /\ saves' = saves + 1) =>
            (instance' = instance /\ db' = db)]_vars

\* C3: at the end of the per-field stage of Validator.validate, a name the selection
\* skips is a key of neither data nor errors; every other name is a key of exactly one
\* of them: of data, with the field's value, when the field by itself validates the
\* input, and of errors when it raises ValidationError.
C3_EachFieldInDataOrErrors ==
    pc = "fields" =>
        \A j \in 1..Len(meta.names) :
            LET name == meta.names[j]
                r == field_validate(meta.fields[name], name, args.super.data)
            IN  IF Skipped(name, args.super.only, args.super.exclude)
                THEN name \notin DOMAIN data /\ name \notin DOMAIN errors
                ELSE /\ (name \in DOMAIN data) # (name \in DOMAIN errors)
                     /\ r.out.exc = "none" => (name \in DOMAIN data /\ data[name] = meta.fields[name].value)
                     /\ r.out.exc = "ValidationError" => name \in DOMAIN errors

\* The per-field stage ended with the first field in errors and the field after it, all
\* the same, in data.
C3_Witness ==
    /\ pc = "fields"
    /\ Len(meta.names) > 1
    /\ meta.names[1] \in DOMAIN errors
    /\ meta.names[2] \in DOMAIN data

\* validate(d, only, exclude) with the arguments of the last call, made on the validator
\* as its constructor leaves it (data and errors empty) with the record and the table as
\* they are.
FreshValidate ==
    LET a == IF IsModel
             THEN ModelValidator_validate_seed(meta, instance, args.passed, args.only, args.exclude)
             ELSE [data |-> args.passed, only |-> args.only, exclude |-> args.exclude]
        s1 == Validator_validate_fields(meta, <<>>, <<>>, a.data, a.only, a.exclude)
        s2 == IF s1.exc = "none" THEN Validator_validate_clean_fields(meta, hooks, s1) ELSE s1
        s3 == IF s2.exc = "none" THEN Validator_validate_clean(meta, hooks, s2) ELSE s2
    IN  IF s3.exc = "none" /\ IsModel THEN ModelValidator_validate_index(meta, pk_value, db, s3)
        ELSE s3

\* C4: after whatever calls came before, a validate() call leaves the data and errors
\* (and ends the way) the same call leaves on a newly constructed validator: nothing of
\* an earlier call survives.  For a ModelValidator the record is the one the validator
\* was constructed on, its identity unchanged.
C4_ValidateDependsOnItsCallOnly ==
    (pc = "idle" /\ ret.op = "validate" /\ pk_value = getattr(instance, Id)) =>
        /\ data = FreshValidate.data
        /\ errors = FreshValidate.errors
        /\ ret.exc = FreshValidate.exc

\* A call returned with no key for a field that an earlier call had given one (the
\* field's value slot still holds what that call put there).
C4_Witness ==
    /\ Returned
    /\ \E j \in 1..Len(meta.names) :
        /\ meta.names[j] \notin DOMAIN data
        /\ meta.names[j] \notin DOMAIN errors
        /\ meta.fields[meta.names[j]].value # None

\* C11: no clean_<field> hook is called in a validate() pass whose per-field stage left
\* an error.  When that stage left none, a hook that returns v sets data[field] = v, and
\* a hook that raises ValidationError leaves an error under its own field's name and
\* data[field] as it was before the hook.
C11_CleanHooksAfterErrorFreeFields ==
    [][pc = "fields" =>
        IF errors # <<>>
        THEN calls' = calls /\ data' = data /\ errors' = errors
        ELSE pc' = "clean_fields" =>
                \A name \in DOMAIN data \cap DOMAIN hooks.clean_fields :
                    LET o == CallMethod(hooks.clean_fields[name], data[name])
                    IN  /\ CallsOf(calls', clean_(name)) # {}
                        /\ o.exc = "none" => data'[name] = o.v /\ name \notin DOMAIN errors'
                        /\ o.exc = "ValidationError" =>
                                name \in DOMAIN errors' /\ data'[name] = data[name]]_vars

\* The hook of the first field raised: its error is under that name and data keeps the
\* value the per-field stage put there.
C11_Witness ==
    /\ pc = "clean_fields"
    /\ CallsOf(calls, clean_(meta.names[1])) # {}
    /\ meta.names[1] \in DOMAIN errors
    /\ meta.names[1] \in DOMAIN data /\ data[meta.names[1]] = meta.fields[meta.names[1]].value

\* C12: clean(data) is called only when errors is empty after the per-field stage and
\* the clean_<field> stage.  When it raises ValidationError the error is under "__base__"
\* and under no field's name, data is what it was before the call, and validate()
\* returns False.
C12_CleanErrorGoesToBase ==
    /\ [][pc = "clean_fields" =>
            /\ CallsOf(calls', "clean") # {} => errors = <<>>
            /\ (errors = <<>> /\ CallMethod(hooks.clean, data).exc = "ValidationError"
                    /\ ret'.exc = "none") =>
                    /\ DOMAIN errors' = {BaseKey}
                    /\ \A j \in 1..Len(meta.names) : meta.names[j] \notin DOMAIN errors'
                    /\ data' = data]_vars
    /\ [](Returned /\ CallsOf(calls, "clean") # {} /\ BaseKey \in DOMAIN errors =>
                ret.v = BoolV(FALSE))

\* validate() returned False after clean() raised, data still holding the fields' values.
C12_Witness ==
    /\ Returned
    /\ CallsOf(calls, "clean") # {}
    /\ DOMAIN errors = {BaseKey}
    /\ data # <<>>
    /\ ret.v = BoolV(FALSE)

\* The columns of the model of the validator, the primary key first.
ModelColumns == <<Id>> \o meta.model.names

\* C16: in ModelValidator.validate, for every model column the selection does not skip,
\* the value validated is the caller's when the caller's dict has the column as a key,
\* None included, and the column's current value on the bound record when it has not;
\* a column the selection skips is not seeded.
C16_SeedsMissingColumnsFromInstance ==
    (pc = "fields" /\ IsModel) =>
        \A j \in 1..Len(ModelColumns) :
            LET name == ModelColumns[j]
                v == IF name \in DOMAIN args.passed THEN args.passed[name]
                     ELSE getattr(instance, name)
            IN  IF Skipped(name, args.super.only, args.super.exclude)
                THEN name \in DOMAIN args.super.data => name \in DOMAIN args.passed
                ELSE /\ name \in DOMAIN args.super.data
                     /\ args.super.data[name] = v
                     /\ name \in DOMAIN meta.fields =>
                            meta.fields[name].value =
                                field_validate(meta.fields[name], name, (name :> v)).value

\* The caller passed None for a column the record has a value of, and None was validated
\* (the column is required); another column came from the record.
C16_Witness ==
    /\ pc = "fields" /\ IsModel
    /\ \E name \in DOMAIN args.passed :
            /\ args.passed[name] = None /\ getattr(instance, name) # None
            /\ name \in DOMAIN errors
    /\ \E name \in DOMAIN args.super.data \ DOMAIN args.passed :
            args.super.data[name] = instance[name] /\ instance[name] # None

\* The text add_error files for an error of kind key that has no arguments.
DefaultText(key) == format(DEFAULT_MESSAGES[key], <<>>).text

\* The unique columns of the model that the last validate() call validated.
UniqueValidated ==
    {name \in DOMAIN meta.model.columns :
        /\ meta.model.columns[name].unique
        /\ ~Skipped(name, args.super.only, args.super.exclude)}

\* C13: for a model column marked unique, validate() on a ModelValidator constructed on
\* a record with no identity, the column's value being that of a stored row, fails with
\* the `unique` message on the column; on a ModelValidator constructed on a persisted
\* record, the column's value being the one of the record's own row, the column passes:
\* the row of the record's own primary key is left out of the uniqueness query.
C13_UniqueExcludesOwnRow ==
    (Returned /\ IsModel) =>
        \A name \in UniqueValidated :
            LET v == args.super.data[name]
            IN  /\ (pk_value = None /\ \E r \in db : r[name] = v) =>
                        (name \in DOMAIN errors /\ errors[name] = DefaultText("unique"))
                /\ (pk_value # None /\ \E r \in db : r[Id] = pk_value /\ r[name] = v) =>
                        name \notin DOMAIN errors

\* The rows of the table, other than the bound record's, that hold the candidate values
\* of the j-th index.
OtherMatches(j) ==
    {r \in db : /\ r[Id] # getattr(instance, Id)
                /\ \A n \in 1..Len(meta.model.indexes[j].columns) :
                        LET col == meta.model.indexes[j].columns[n] IN r[col] = get(data, col)}

\* C14: in perform_index_validation, for every unique index a stored row other than the
\* current record matches on all columns, errors afterwards holds the `index` message
\* under every column of the index; a column gets an error only from a unique index it
\* belongs to; and a persisted record validated against its own stored values gets no
\* index error.
C14_IndexErrorOnEveryColumn ==
    [][(pc = "index" /\ errors = <<>> /\ ret'.exc = "none") =>
        /\ \A j \in 1..Len(meta.model.indexes) :
                (meta.model.indexes[j].unique /\ OtherMatches(j) # {}) =>
                    \A n \in 1..Len(meta.model.indexes[j].columns) :
                        LET col == meta.model.indexes[j].columns[n]
                        IN  col \in DOMAIN errors' /\ errors'[col] = DefaultText("index")
        /\ \A col \in DOMAIN errors' :
                \E j \in 1..Len(meta.model.indexes) :
                    meta.model.indexes[j].unique /\ Has(meta.model.indexes[j].columns, col)
        /\ (\E r \in db : r[Id] = getattr(instance, Id)
                            /\ \A col \in DOMAIN meta.model.columns : r[col] = get(data, col)) =>
                errors' = <<>>]_vars

\* c is a call of the clean_<name> hook of its field.
IsCleanField(c) == c.op = clean_(c.name)

\* The names, in the order of the fields, that data holds and the class has a hook for.
Hooked ==
    SelectSeq(meta.names, LAMBDA name : name \in DOMAIN data /\ name \in DOMAIN hooks.clean_fields)

\* C23 as stated: once a clean_<field> hook has raised ValidationError no later
\* clean_<field> hook is called, and the field-cleaning stage leaves at most one error.
C23_Original ==
    [][(pc = "fields" /\ errors = <<>>) =>
        /\ Cardinality(DOMAIN errors') <= 1
        /\ \A i, j \in 1..Len(calls') :
                (i < j /\ IsCleanField(calls'[i]) /\ calls'[i].exc = "ValidationError") =>
                    ~IsCleanField(calls'[j])]_vars

\* C23 (amended): the field-cleaning stage calls the clean_<field> hook of every field
\* of data that has one, in the order of the fields, each with the field's value,
\* whether or not a hook before it raised ValidationError; it files one error for every
\* hook that raised ValidationError, under the hook's field, and leaves that field's
\* value as it was; the value of a field whose hook returned is what the hook returned.
C23_EveryHookCalledOneErrorEach ==
    [][(pc = "fields" /\ errors = <<>> /\ ret'.exc = "none") =>
        LET called == SelectSeq(calls', IsCleanField)
            result(name) == CallMethod(hooks.clean_fields[name], data[name])
        IN  /\ [j \in 1..Len(called) |-> called[j].name] = Hooked
            /\ \A j \in 1..Len(called) : called[j].v = data[called[j].name]
            /\ DOMAIN errors' = {name \in DOMAIN data : Has(Hooked, name) /\ result(name).exc = "ValidationError"}
            /\ \A name \in DOMAIN errors' :
                    errors'[name] = add_error(meta.messages, <<>>, name, result(name)).errors[name]
            /\ DOMAIN data' = DOMAIN data
            /\ \A name \in DOMAIN data :
                    data'[name] = IF Has(Hooked, name) /\ result(name).exc = "none"
                                  THEN result(name).v ELSE data[name]]_vars

\* The hooks of two fields were called, the first raised ValidationError and the second
\* after it did too: the stage left two errors.
C23_Witness ==
    /\ pc = "clean_fields"
    /\ Cardinality(DOMAIN errors) = 2
    /\ \E i, j \in 1..Len(calls) :
            /\ i < j /\ IsCleanField(calls[i]) /\ IsCleanField(calls[j])
            /\ calls[i].exc = "ValidationError" /\ calls[j].exc = "ValidationError"

\* C22: the identity left out of the uniqueness and index queries is the one the record
\* has when validate() is called: when validate(d) has returned True and save() has
\* persisted the record, validate(d) called again returns True again.
C22_ValidatesAgainAfterSave ==
    (Returned /\ IsModel /\ args.again) => (errors = <<>> /\ ret.v = BoolV(TRUE))

\* C26: a validate() call given no only (exclude) argument selects the fields by the
\* class's Meta.only (Meta.exclude), on a Validator as on a ModelValidator, and a call
\* argument takes precedence over the Meta option: at the end of the per-field stage
\* the names that selection skips are the names with neither a value nor an error.
C26_MetaSelectionIsTheDefault ==
    pc = "fields" =>
        \A j \in 1..Len(meta.names) :
            Skipped(meta.names[j], Or(args.only, meta.only), Or(args.exclude, meta.exclude))
                <=> (meta.names[j] \notin DOMAIN data /\ meta.names[j] \notin DOMAIN errors)

\* C28: ModelValidator.validate leaves the dict its caller passed as it was: after the
\* call the caller's dict has the keys and values it had before.
C28_CallerInputUnchanged ==
    IsModel => args.data = args.passed

\* C29: after a validate() call every key of errors is "__base__" or the name of a
\* registered field that the only/exclude selection of the call did not skip; an index
\* conflict records no error under a column the selection left out.
C29_ErrorsOnlyUnderValidatedFields ==
    Returned =>
        \A key \in DOMAIN errors :
            \/ key = BaseKey
            \/ /\ key \in DOMAIN meta.fields
               /\ ~Skipped(key, args.super.only, args.super.exclude)

\* C30: for a model column that is unique and allows NULL, a validate() call in which
\* the column's value is None does not report `unique` on it, whatever rows are stored.
C30_NoneSkipsUniqueCheck ==
    (Returned /\ IsModel) =>
        \A name \in UniqueValidated :
            (meta.model.columns[name].null /\ args.super.data[name] = None) =>
                ~(name \in DOMAIN errors /\ errors[name] = DefaultText("unique"))

\* The stored rows that hold the values data has for the columns of the j-th index, the
\* row of the identity the validator excludes left out.
Conflicts(j) ==
    {r \in db : /\ Truthy(pk_value) => r[Id] # pk_value
                /\ \A n \in 1..Len(meta.model.indexes[j].columns) :
                        LET col == meta.model.indexes[j].columns[n] IN r[col] = get(data, col)}

\* The columns of the unique indexes whose values in data a stored row holds.
Conflicting ==
    {col \in DOMAIN meta.model.columns :
        \E j \in 1..Len(meta.model.indexes) :
            /\ meta.model.indexes[j].unique
            /\ Has(meta.model.indexes[j].columns, col)
            /\ Conflicts(j) # {}}

\* C24: ModelValidator.validate queries the unique indexes only when errors is empty
\* after the per-field, field-cleaning and clean stages: with an error recorded the
\* index stage leaves errors as they are, and the `index` message never stands beside a
\* message of another kind.  The query is made with the cleaned values of data (what
\* the hooks left), and its conflicts are the errors the stage records.
C24_IndexCheckedOnlyWhenErrorFree ==
    [][/\ (pc = "index" /\ errors # <<>>) => errors' = errors
       /\ (pc = "index" /\ errors = <<>> /\ ret'.exc = "none") =>
                errors' = [col \in Conflicting |-> DefaultText("index")]
       /\ IsModel =>
                \A a, b \in DOMAIN errors' :
                    errors'[a] = DefaultText("index") => errors'[b] = DefaultText("index")]_vars

\* A field-cleaning hook changed a column of a unique index to the value a stored row
\* holds, the input's own value being another: the index stage, entered with no error,
\* recorded the conflict of the cleaned values.
C24_Witness ==
    /\ Returned /\ IsModel
    /\ \E col \in DOMAIN errors : errors[col] = DefaultText("index")
    /\ \E col \in DOMAIN data : col \in DOMAIN args.super.data /\ args.super.data[col] # data[col]
    /\ \E j \in 1..Len(calls) : IsCleanField(calls[j])

\* name is a many-to-many field of the validator's model.
IsMany(name) == Has(ManyNames(meta.model), name)

\* The record ids the through table links the record of key id to.
Linked(links, id) == {l.target : l \in {x \in links : x.source = id}}

\* The primary keys of the records of a validated many-to-many value.
Targets(value) == {pairs_get(value.s[j].s, Id) : j \in 1..Len(value.s)}

\* C15: ModelValidator.save assigns every value of data that is no many-to-many value
\* to the record before the record is persisted, persists the record exactly once, and
\* assigns each many-to-many value only after that persist call has returned; save
\* returns what the persist call returned.
C15_SaveAssignsPersistsThenLinks ==
    [][(pc = "idle" /\ saves' = saves + 1) =>
        /\ Cardinality(CallsOf(calls', "save")) = 1
        /\ LET at == CHOOSE j \in CallsOf(calls', "save") : TRUE
               rv == calls'[at]
           IN  /\ \A name \in DOMAIN data :
                      ~IsMany(name) =>
                          /\ \E j \in 1..(at - 1) :
                                calls'[j] = Called("setattr", name, data[name], "none", "none")
                          /\ instance'[name] = data[name]
               /\ \A j \in CallsOf(calls', "setattr") :
                      IsMany(calls'[j].name) => (j > at /\ rv.exc = "none")
               /\ \A name \in DOMAIN data :
                      (IsMany(name) /\ data[name] # None /\ rv.exc = "none") =>
                          /\ \E j \in (at + 1)..Len(calls') :
                                /\ calls'[j].op = "setattr" /\ calls'[j].name = name
                                /\ calls'[j].v = data[name]
                          /\ ret'.exc = "none" =>
                                Linked(through', instance'[Id]) = Targets(data[name])
               /\ ret'.exc = rv.exc /\ ret'.v = rv.v]_vars

\* save() on a validator of a new Student whose validated data names two courses: the
\* name was assigned, the record stored under a new key, then the courses were linked.
C15_Witness ==
    /\ ret.op = "save" /\ ret.exc = "none" /\ ret.v = IntV(1)
    /\ pk_value = None /\ instance[Id] # None
    /\ Len(calls) = 3
    /\ calls[1].op = "setattr" /\ ~IsMany(calls[1].name)
    /\ calls[2].op = "save"
    /\ calls[3].op = "setattr" /\ IsMany(calls[3].name)
    /\ Cardinality(Linked(through, instance[Id])) = 2

\* A validate() call is over: it returned or an exception left it.
Over == pc = "idle" /\ ret.op = "validate"

\* What holds of the ValidationErrors and of the exceptions of other types that the
\* field.validate, clean_<field> and clean calls of a validate() call raised.
AbsorbsOwnErrorOnly ==
    /\ ret.exc # "ValidationError"
    /\ ret.exc = "none" =>
            \A j \in 1..Len(calls) :
                calls[j].exc = "ValidationError" => calls[j].name \in DOMAIN errors
    /\ \A j \in 1..Len(calls) :
            calls[j].exc \notin {"none", "ValidationError"} =>
                (j = Len(calls) /\ ret.exc = calls[j].exc)

\* C17 as stated: a ValidationError raised by a field's coercion, a field check, a
\* clean_<field> hook or the clean hook never leaves validate() and is an entry of
\* errors when validate() returns; an exception of any other type raised in those
\* places, the lookups of the relation fields included, leaves validate().
C17_Original ==
    Over =>
        /\ AbsorbsOwnErrorOnly
        /\ \A j \in 1..Len(calls) : calls[j].inner # "none" => ret.exc = calls[j].inner

\* C17, amended: as stated, except that an AttributeError, a ValueError or a
\* DoesNotExist raised inside the lookup of a relation field is caught by the field and
\* raised again as the ValidationError `related`, which becomes the entry of errors
\* under the field's name; a lookup's exception of any other type leaves validate().
C17_OnlyLookupErrorsBecomeRelated ==
    Over =>
        /\ AbsorbsOwnErrorOnly
        /\ \A j \in 1..Len(calls) :
                LET name == calls[j].name
                    f == meta.fields[name]
                IN  /\ calls[j].inner \notin (LookupErrors \cup {"none"}) =>
                            ret.exc = calls[j].inner
                    /\ calls[j].inner \in LookupErrors =>
                            /\ calls[j].exc = "ValidationError"
                            /\ ret.exc = "none" =>
                                    /\ name \in DOMAIN errors
                                    /\ errors[name] = format(DEFAULT_MESSAGES["related"],
                                                              related(f, f.value).kwargs).text

\* validate() returned False after the lookup of a course raised DoesNotExist: the
\* field is in errors.
C17_Witness ==
    /\ Over /\ ret.exc = "none" /\ ret.v = BoolV(FALSE)
    /\ \E j \in 1..Len(calls) :
            calls[j].inner = "DoesNotExist" /\ calls[j].name \in DOMAIN errors

---------------------------------------------------------------------------
(* SpecClasses: a validator class is declared, with or without a base class of its    *)
(* own, and a validator of it is constructed, plain or on a record of a model.        *)

Required == StringField(TRUE, None, None, NoDefault, <<>>)
Optional == StringField(FALSE, None, None, NoDefault, <<>>)

\* The bodies of the classes: each attribute assigned a Field, something else, or not
\* assigned.
ClassBodies ==
    {DictOf(AttrNames, <<c, f, n>>) :
        c \in {Absent, Optional},
        f \in {Absent, Required, Optional, NotAField},
        n \in {Absent, Required, Optional}}

\* class V(Validator) or class V(ModelValidator), and class W(V).
Classes == {<<c>> : c \in ClassBodies} \cup {<<c, b>> : c \in ClassBodies, b \in ClassBodies}

\* The model and the record a validator is constructed on, none for a Validator.
Bindings ==
    {<<NoModel, NoInstance>>,
     <<Person, [id |-> None, name |-> None]>>,
     <<Student, PersonRow(1, X)>>}

InitClasses ==
    /\ field = Field(FALSE, NoDefault, <<>>) /\ call = NoCall /\ added = NoAdded
    /\ cls \in Classes /\ heap = NoHeap
    /\ \E b \in Bindings : meta = [NoMeta EXCEPT !.model = b[1]] /\ instance = b[2]
    /\ hooks = NoHooks /\ data = <<>> /\ errors = <<>> /\ pc = "idle"
    /\ args = NoArgs /\ ret = NoRet /\ pk_value = None /\ db = {}
    /\ saves = 0 /\ through = {} /\ calls = <<>>

\* V() or V(instance): Validator.__init__, after what ModelValidator.__init__ does first
\* for a ModelValidator.
Construct ==
    /\ ret.op = "none"
    /\ LET pk == getattr(instance, Id)
           declared == Validator_initialize_fields(cls, <<>>, <<>>)
           f == IF IsModel
                THEN ModelValidator_initialize_fields(meta.model, pk, declared.fields, declared.names)
                ELSE declared
       IN  /\ meta' = [meta EXCEPT !.fields = f.fields, !.names = f.names]
           /\ pk_value' = pk
    /\ ret' = [ret EXCEPT !.op = "__init__"]
    /\ UNCHANGED <<fieldVars, added, hooks, cls, heap, data, errors, pc, args, instance, db, saves,
                   through, calls>>

NextClasses == Construct

SpecClasses == InitClasses /\ [][NextClasses]_vars

\* The classes of cls whose body assigns name.
Declaring(name) == {j \in 1..Len(cls) : name \in DOMAIN cls[j]}

\* The most derived class that declares name declares a Field.
DeclaresField(name) ==
    /\ Declaring(name) # {}
    /\ isinstance_Field(cls[CHOOSE j \in Declaring(name) : \A i \in Declaring(name) : j <= i][name])

\* The Field that declaration is.
MostSpecific(name) == cls[CHOOSE j \in Declaring(name) : \A i \in Declaring(name) : j <= i][name]

\* The columns and relations of the model the validator is bound to, the primary key
\* not among them.
DerivedNames ==
    DOMAIN meta.model.columns \cup {meta.model.many[j].name : j \in 1..Len(meta.model.many)}

\* C20: the fields a validator registers are resolved by name, the most specific
\* declaration winning: a field declared on a subclass replaces the base class's field
\* of that name, the other fields of the base class are kept, a field declared on a
\* ModelValidator subclass replaces the field derived from the model's column or
\* relation of that name, and the model's primary key is never registered as a derived
\* field.
C20_MostSpecificDeclarationWins ==
    ret.op = "__init__" =>
        /\ \A j \in 1..Len(cls) : \A name \in DOMAIN cls[j] :
                DeclaresField(name) =>
                    (name \in DOMAIN meta.fields /\ meta.fields[name] = MostSpecific(name))
        /\ \A name \in DerivedNames :
                /\ name \in DOMAIN meta.fields
                /\ ~DeclaresField(name) =>
                        meta.fields[name].kind \in {"StringField", "ManyModelChoiceField"}
                        /\ meta.fields[name] \notin {Required, Optional}
        /\ \A name \in DOMAIN meta.fields : DeclaresField(name) \/ name \in DerivedNames
        /\ Id \notin DOMAIN meta.fields
        /\ {meta.names[j] : j \in 1..Len(meta.names)} = DOMAIN meta.fields
        /\ Len(meta.names) = Cardinality(DOMAIN meta.fields)

\* A validator of a subclass, on a Student: the subclass and its base both declare
\* `name`, each its own field, and the subclass's is registered in the place of the
\* column's; field1 comes from the base alone, courses from the model's relation.
C20_Witness ==
    /\ ret.op = "__init__" /\ IsModel /\ Len(cls) = 2
    /\ "name" \in DOMAIN cls[1] /\ "name" \in DOMAIN cls[2] /\ cls[1]["name"] # cls[2]["name"]
    /\ meta.fields["name"] = cls[1]["name"]
    /\ "field1" \in DOMAIN cls[2] \ DOMAIN cls[1] /\ "field1" \in DOMAIN meta.fields
    /\ "courses" \in DOMAIN meta.fields /\ ~DeclaresField("courses")

---------------------------------------------------------------------------
(* SpecLists: a caller makes a list of checks (or none) and constructs fields with it *)
(* as the validators argument.  A list object is its index in heap.lists; the         *)
(* reference 0 is None.                                                                *)

MaxFields == 2      \* the fields constructed from the one supplied list

\* `validators or []`: the list referred to when it is not empty, a new empty list else.
or_new(lists, ref) ==
    IF ref # 0 /\ lists[ref] # <<>> THEN [lists |-> lists, ref |-> ref]
    ELSE [lists |-> Append(lists, <<>>), ref |-> Len(lists) + 1]

\* lists[ref].append(check)
append(lists, ref, check) == [lists EXCEPT ![ref] = Append(@, check)]

\* Field.__init__(required, validators=ref) on the list objects: self.validators is the
\* reference it returns.
Field__init__validators(lists, required, ref) ==
    LET a == or_new(lists, ref)
    IN  [lists |-> IF required THEN append(a.lists, a.ref, validate_required) ELSE a.lists,
         ref |-> a.ref]

\* StringField.__init__(required, max_length, min_length, validators=ref)
StringField__init__validators(lists, required, max_length, min_length, ref) ==
    LET a == or_new(lists, ref)
    IN  Field__init__validators(
            IF Truthy(max_length) \/ Truthy(min_length)
            THEN append(a.lists, a.ref, validate_length(min_length, max_length, None))
            ELSE a.lists,
            required, a.ref)

\* IntegerField.__init__(required, low, high, validators=ref)
IntegerField__init__validators(lists, required, low, high, ref) ==
    LET a == or_new(lists, ref)
    IN  Field__init__validators(
            IF Truthy(low) \/ Truthy(high)
            THEN append(a.lists, a.ref, validate_range(low, high))
            ELSE a.lists,
            required, a.ref)

\* The lists a caller supplies.
SuppliedLists == {<<>>, <<validate_not_empty>>, <<RejectsNone, validate_not_empty>>}
ShortcutBounds == {None, IntV(1)}

InitLists ==
    /\ field = Field(FALSE, NoDefault, <<>>) /\ call = NoCall /\ added = NoAdded
    /\ meta = NoMeta /\ hooks = NoHooks /\ cls = <<>> /\ data = <<>> /\ errors = <<>> /\ pc = "idle"
    /\ args = NoArgs /\ ret = NoRet /\ instance = NoInstance /\ pk_value = None /\ db = {}
    /\ saves = 0 /\ through = {} /\ calls = <<>>
    /\ \/ heap = NoHeap
       \/ \E supplied \in SuppliedLists :
            heap = [lists |-> <<supplied>>, given |-> [ref |-> 1, items |-> supplied],
                    fields |-> <<>>]

\* The constructor of the class kind, called with the supplied list.
ConstructField ==
    /\ Len(heap.fields) < MaxFields
    /\ \E kind \in {"Field", "StringField", "IntegerField"}, required \in BOOLEAN,
          low \in ShortcutBounds, high \in ShortcutBounds :
        /\ kind = "Field" => (low = None /\ high = None)
        /\ LET made ==
                CASE kind = "Field" ->
                        Field__init__validators(heap.lists, required, heap.given.ref)
                  [] kind = "StringField" ->
                        StringField__init__validators(heap.lists, required, high, low, heap.given.ref)
                  [] kind = "IntegerField" ->
                        IntegerField__init__validators(heap.lists, required, low, high, heap.given.ref)
           IN  heap' = [heap EXCEPT !.lists = made.lists,
                                    !.fields = Append(@, [kind |-> kind, required |-> required,
                                                          low |-> low, high |-> high,
                                                          validators |-> made.ref])]
    /\ UNCHANGED <<fieldVars, added, meta, hooks, cls, data, errors, pc, args, ret, instance,
                   pk_value, db, saves, through, calls>>

NextLists == ConstructField

SpecLists == InitLists /\ [][NextLists]_vars

\* The checks the constructor of f builds from the items the caller put in the list.
Own(f) ==
    CASE f.kind = "Field" -> Field(f.required, NoDefault, heap.given.items).validators
      [] f.kind = "StringField" ->
            StringField(f.required, f.high, f.low, NoDefault, heap.given.items).validators
      [] f.kind = "IntegerField" ->
            IntegerField(f.required, f.low, f.high, NoDefault, heap.given.items).validators

\* C27: constructing a field allocates a list of checks of its own: the list the caller
\* supplied keeps the items it had, no field's list is the caller's list or another
\* field's, and a field's list holds the caller's items and the checks its own
\* constructor appended, none that the constructor of another field appended.
C27_FieldOwnsItsChecksList ==
    /\ heap.given.ref # 0 => heap.lists[heap.given.ref] = heap.given.items
    /\ \A i \in 1..Len(heap.fields) :
        /\ heap.fields[i].validators # heap.given.ref
        /\ \A j \in 1..Len(heap.fields) :
                i # j => heap.fields[i].validators # heap.fields[j].validators
        /\ heap.lists[heap.fields[i].validators] = Own(heap.fields[i])

====
